---- MODULE Spec2Model ----
(***************************************************************************)
(* The segment-trie matcher (tree.go), route removal (pkg/app.go) and the   *)
(* staged filter pipeline of the goasana/asana router.                      *)
(*                                                                          *)
(* Strings are sequences of one-character strings, so that the raw path     *)
(* handling of Tree.match (slashes, suffixes, treePattern) is computed the  *)
(* way the Go code computes it.                                             *)
(***************************************************************************)
EXTENDS Integers, Sequences, FiniteSets, TLC

(***************************************************************************)
(* Strings                                                                  *)
(***************************************************************************)
SLASH == "/"

\* a[i..j] of Go's a[i-1:j]; empty when j < i
Sub(s, i, j) == IF j < i THEN <<>> ELSE SubSeq(s, i, j)

HasSuffix(s, suf) ==
  /\ Len(s) >= Len(suf)
  /\ Sub(s, Len(s) - Len(suf) + 1, Len(s)) = suf

HasPrefix(s, pre) ==
  /\ Len(s) >= Len(pre)
  /\ Sub(s, 1, Len(pre)) = pre

InSlice(v, sl) == \E i \in 1..Len(sl) : sl[i] = v

RECURSIVE TrimLeft(_, _)
TrimLeft(s, cut) ==
  IF Len(s) > 0 /\ s[1] \in cut THEN TrimLeft(Tail(s), cut) ELSE s

RECURSIVE TrimRight(_, _)
TrimRight(s, cut) ==
  IF Len(s) > 0 /\ s[Len(s)] \in cut THEN TrimRight(Sub(s, 1, Len(s) - 1), cut) ELSE s

Trim(s, cut) == TrimRight(TrimLeft(s, cut), cut)

\* index of the first sep in s, 0 when there is none
RECURSIVE IndexFrom(_, _, _)
IndexFrom(s, sep, i) ==
  IF i > Len(s) THEN 0
  ELSE IF s[i] = sep THEN i
  ELSE IndexFrom(s, sep, i + 1)

\* strings.Split(s, sep): every separator cuts, empty pieces are kept
RECURSIVE Split(_, _)
Split(s, sep) ==
  LET i == IndexFrom(s, sep, 1)
  IN IF i = 0 THEN <<s>>
     ELSE <<Sub(s, 1, i - 1)>> \o Split(Sub(s, i + 1, Len(s)), sep)

\* strings.SplitN(s, sep, 2): cut at the first separator only
SplitN2(s, sep) ==
  LET i == IndexFrom(s, sep, 1)
  IN IF i = 0 THEN <<s>>
     ELSE <<Sub(s, 1, i - 1), Sub(s, i + 1, Len(s))>>

RECURSIVE JoinSlash(_)
JoinSlash(parts) ==
  IF Len(parts) = 0 THEN <<>>
  ELSE IF Len(parts) = 1 THEN parts[1]
  ELSE parts[1] \o <<SLASH>> \o JoinSlash(Tail(parts))

\* path.Join: empty elements are dropped, the rest joined with "/" and
\* cleaned.  Clean is modelled for elements that are neither "." nor "..":
\* it collapses repeated slashes and drops a trailing one, which is the
\* same as joining the non-empty pieces of the "/"-split of every element.
RECURSIVE NonEmpty(_)
NonEmpty(parts) ==
  IF Len(parts) = 0 THEN <<>>
  ELSE IF parts[1] = <<>> THEN NonEmpty(Tail(parts))
  ELSE <<parts[1]>> \o NonEmpty(Tail(parts))

RECURSIVE PiecesOf(_)
PiecesOf(parts) ==
  IF Len(parts) = 0 THEN <<>>
  ELSE NonEmpty(Split(parts[1], SLASH)) \o PiecesOf(Tail(parts))

pathJoinClean(ne) ==
  IF Len(ne) > 0 /\ ne[1][1] = SLASH
  THEN <<SLASH>> \o JoinSlash(PiecesOf(ne))
  ELSE JoinSlash(PiecesOf(ne))

pathJoin(parts) == pathJoinClean(NonEmpty(parts))

(***************************************************************************)
(* Reserved names and the fixed suffix list                                 *)
(***************************************************************************)
pSplat == <<":", "s", "p", "l", "a", "t">>
pPath  == <<":", "p", "a", "t", "h">>
pExt   == <<":", "e", "x", "t">>
pColon == <<":">>
pDot   == <<".">>
sStar    == <<"*">>
sStarDot == <<"*", ".", "*">>

allowSuffixExt ==
  << <<".", "j", "s", "o", "n">>, <<".", "x", "m", "l">>, <<".", "h", "t", "m", "l">> >>

\* regexp.MustCompile(`[a-zA-Z0-9_]+`) applied to one character
WordChars ==
  {"a", "b", "c", "d", "e", "f", "g", "h", "i", "j", "k", "l", "m", "n", "o", "p",
   "q", "r", "s", "t", "u", "v", "w", "x", "y", "z",
   "A", "B", "C", "D", "E", "F", "G", "H", "I", "J", "K", "L", "M", "N", "O", "P",
   "Q", "R", "S", "T", "U", "V", "W", "X", "Y", "Z",
   "0", "1", "2", "3", "4", "5", "6", "7", "8", "9", "_"}

rAny      == <<"(", ".", "+", ")">>
rSeg      == <<"(", "[", "^", "/", "]", "+", ")">>
rInt      == <<"(", "[", "0", "-", "9", "]", "+", ")">>
rWord     == <<"(", "[", "\\", "w", "]", "+", ")">>
rPathExt  == <<"(", "[", "^", ".", "]", "+", ")", ".", "(", ".", "+", ")">>

(***************************************************************************)
(* splitPath, splitSegment                                                  *)
(***************************************************************************)
splitPath(key) ==
  LET k == Trim(key, {"/", " "})
  IN IF k = <<>> THEN <<>> ELSE Split(k, SLASH)

\* the locals of splitSegment's character loop
splitSegmentInit ==
  [paramsNum |-> 0, out |-> <<>>, start |-> FALSE, startExp |-> FALSE,
   param |-> <<>>, expt |-> <<>>, skipNum |-> 0, params |-> <<>>]

\* lines 506-513, 518-525 and 535-540: the parameter name read so far is
\* closed and its regexp fragment re emitted
splitSegmentClose(s, re, skip) ==
  [paramsNum |-> s.paramsNum + 1, out |-> s.out \o re, start |-> FALSE,
   startExp |-> FALSE, param |-> <<>>, expt |-> s.expt, skipNum |-> skip,
   params |-> Append(s.params, <<":">> \o s.param)]

\* lines 543-574: the tail of the loop body, from "if startExp" on
splitSegmentRest(key, s, i) ==
  LET v == key[i]
  IN IF s.startExp /\ v # ")" THEN [s EXCEPT !.expt = Append(s.expt, v)]
     ELSE IF i > 1 /\ key[i - 1] = "\\" THEN [s EXCEPT !.out = Append(s.out, v)]
     ELSE IF v = ":" THEN [s EXCEPT !.param = <<>>, !.start = TRUE]
     ELSE IF v = "(" THEN
       [s EXCEPT !.startExp = TRUE, !.start = FALSE,
                 !.params = IF Len(s.param) > 0
                            THEN Append(s.params, <<":">> \o s.param) ELSE s.params,
                 !.param = <<>>,
                 !.paramsNum = s.paramsNum + 1,
                 !.expt = <<"(">>]
     ELSE IF v = ")" THEN
       [s EXCEPT !.startExp = FALSE,
                 !.expt = Append(s.expt, ")"),
                 !.out = s.out \o Append(s.expt, ")"),
                 !.param = <<>>]
     ELSE IF v = "?" THEN [s EXCEPT !.params = Append(s.params, pColon)]
     ELSE [s EXCEPT !.out = Append(s.out, v)]

\* lines 497-541: what the head of the loop body does with character i
splitSegmentKind(key, st, i) ==
  IF st.skipNum > 0 THEN "skip"
  ELSE IF ~st.start THEN "rest"
  ELSE IF key[i] = ":" /\ Len(key) >= i + 3
          /\ Sub(key, i + 1, i + 3) = <<"i", "n", "t">> THEN "int"
  ELSE IF key[i] = ":" /\ Len(key) >= i + 6
          /\ Sub(key, i + 1, i + 6) = <<"s", "t", "r", "i", "n", "g">> THEN "string"
  ELSE IF key[i] \in WordChars THEN "word"
  ELSE IF key[i] # "(" THEN "close"
  ELSE "rest"

splitSegmentApply(key, st, i, kind) ==
  CASE kind = "skip" -> [st EXCEPT !.skipNum = st.skipNum - 1]
    [] kind = "int" -> splitSegmentClose(st, rInt, 3)
    [] kind = "string" -> splitSegmentClose(st, rWord, 6)
    [] kind = "word" -> [st EXCEPT !.param = Append(st.param, key[i])]
    [] kind = "close" -> splitSegmentRest(key, splitSegmentClose(st, rAny, 0), i)
    [] kind = "rest" -> splitSegmentRest(key, st, i)

\* one iteration of the character loop of splitSegment; st holds the loop's
\* locals, i is the 1-based position of the character in key
splitSegmentStep(key, st, i) == splitSegmentApply(key, st, i, splitSegmentKind(key, st, i))

\* the character loop; skipNum is never negative, and reading it has the
\* locals computed at every iteration
RECURSIVE splitSegmentLoop(_, _, _)
splitSegmentLoop(key, st, i) ==
  IF i > Len(key) \/ st.skipNum < 0 THEN st
  ELSE splitSegmentLoop(key, splitSegmentStep(key, st, i), i + 1)

\* lines 576-582
splitSegmentEnd(st) ==
  IF Len(st.param) > 0
  THEN [isWild |-> TRUE,
        params |-> Append(st.params, <<":">> \o st.param),
        regexpStr |-> IF st.paramsNum > 0 THEN st.out \o rAny ELSE st.out]
  ELSE [isWild |-> TRUE, params |-> st.params, regexpStr |-> st.out]

\* (isWild, params, regexpStr) of one pattern segment
splitSegment(key) ==
  IF HasPrefix(key, sStar) THEN
    IF key = sStarDot
    THEN [isWild |-> TRUE, params |-> <<pDot, pPath, pExt>>, regexpStr |-> <<>>]
    ELSE [isWild |-> TRUE, params |-> <<pSplat>>, regexpStr |-> <<>>]
  ELSE IF InSlice(":", key) THEN splitSegmentEnd(splitSegmentLoop(key, splitSegmentInit, 1))
  ELSE [isWild |-> FALSE, params |-> <<>>, regexpStr |-> <<>>]

(***************************************************************************)
(* Regular expressions.  A compiled regexp keeps its source text, as        *)
(* regexp.Regexp.String() returns it.  The matcher covers the text that     *)
(* addSeg and filterTreeWithPrefix can build: ^ and $ anchors, literal      *)
(* characters, "." and the capturing groups (X+) with X one of ".",         *)
(* "[^/]", "[^.]", "[0-9]", "[\w]".  Go's leftmost-first semantics makes    *)
(* each X+ take the longest run for which the rest still matches.           *)
(***************************************************************************)
NoRegexp == <<>>

Digits == {"0", "1", "2", "3", "4", "5", "6", "7", "8", "9"}

\* the tokens of a regexp text; a text outside the covered grammar yields a
\* token of kind "bad", which regexp.MustCompile rejects
RECURSIVE reTokens(_)
reTokens(re) ==
  IF Len(re) = 0 THEN <<>>
  ELSE IF HasPrefix(re, rAny) THEN
    <<[kind |-> "grp", cls |-> "any"]>> \o reTokens(Sub(re, Len(rAny) + 1, Len(re)))
  ELSE IF HasPrefix(re, rSeg) THEN
    <<[kind |-> "grp", cls |-> "notslash"]>> \o reTokens(Sub(re, Len(rSeg) + 1, Len(re)))
  ELSE IF HasPrefix(re, <<"(", "[", "^", ".", "]", "+", ")">>) THEN
    <<[kind |-> "grp", cls |-> "notdot"]>> \o reTokens(Sub(re, 8, Len(re)))
  ELSE IF HasPrefix(re, rInt) THEN
    <<[kind |-> "grp", cls |-> "digit"]>> \o reTokens(Sub(re, Len(rInt) + 1, Len(re)))
  ELSE IF HasPrefix(re, rWord) THEN
    <<[kind |-> "grp", cls |-> "word"]>> \o reTokens(Sub(re, Len(rWord) + 1, Len(re)))
  ELSE IF re[1] \in {"(", ")", "[", "]", "+", "*", "?", "{", "}", "|", "\\"} THEN
    <<[kind |-> "bad", cls |-> re[1]]>>
  ELSE IF re[1] = "^" THEN <<[kind |-> "bol", cls |-> ""]>> \o reTokens(Tail(re))
  ELSE IF re[1] = "$" THEN <<[kind |-> "eol", cls |-> ""]>> \o reTokens(Tail(re))
  ELSE IF re[1] = "." THEN <<[kind |-> "dot", cls |-> ""]>> \o reTokens(Tail(re))
  ELSE <<[kind |-> "lit", cls |-> re[1]]>> \o reTokens(Tail(re))

\* whether regexp.MustCompile(re) returns (it panics otherwise)
Compilable(re) ==
  LET toks == reTokens(re)
  IN \A i \in 1..Len(toks) : toks[i].kind # "bad"

InClass(c, cls) ==
  CASE cls = "any" -> TRUE
    [] cls = "notslash" -> c # "/"
    [] cls = "notdot" -> c # "."
    [] cls = "digit" -> c \in Digits
    [] cls = "word" -> c \in WordChars

\* the length of the longest prefix of s made of characters of cls
RECURSIVE RunLen(_, _)
RunLen(s, cls) ==
  IF Len(s) > 0 /\ InClass(s[1], cls) THEN 1 + RunLen(Tail(s), cls) ELSE 0

\* match toks against the rest s of the subject, pos characters of which are
\* already consumed; returns [ok, caps] with the captured groups in order
RECURSIVE reMatchFrom(_, _, _)
RECURSIVE reGroup(_, _, _, _, _)
reGroup(toks, s, pos, n, cls) ==
  IF n < 1 THEN [ok |-> FALSE, caps |-> <<>>]
  ELSE LET r == reMatchFrom(Tail(toks), Sub(s, n + 1, Len(s)), pos + n)
       IN IF r.ok THEN [ok |-> TRUE, caps |-> <<Sub(s, 1, n)>> \o r.caps]
          ELSE reGroup(toks, s, pos, n - 1, cls)

reMatchFrom(toks, s, pos) ==
  IF Len(toks) = 0 THEN [ok |-> TRUE, caps |-> <<>>]
  ELSE LET t == Head(toks)
       IN CASE t.kind = "bol" ->
                 IF pos = 0 THEN reMatchFrom(Tail(toks), s, pos)
                 ELSE [ok |-> FALSE, caps |-> <<>>]
            [] t.kind = "eol" ->
                 IF Len(s) = 0 THEN reMatchFrom(Tail(toks), s, pos)
                 ELSE [ok |-> FALSE, caps |-> <<>>]
            [] t.kind = "lit" ->
                 IF Len(s) > 0 /\ s[1] = t.cls THEN reMatchFrom(Tail(toks), Tail(s), pos + 1)
                 ELSE [ok |-> FALSE, caps |-> <<>>]
            [] t.kind = "dot" ->
                 IF Len(s) > 0 THEN reMatchFrom(Tail(toks), Tail(s), pos + 1)
                 ELSE [ok |-> FALSE, caps |-> <<>>]
            [] t.kind = "grp" -> reGroup(toks, s, pos, RunLen(s, t.cls), t.cls)
            [] OTHER -> [ok |-> FALSE, caps |-> <<>>]

\* FindStringSubmatch that is content with a prefix of s
FindStringSubmatchPrefix(re, s) ==
  reMatchFrom(SelectSeq(reTokens(re), LAMBDA t : t.kind # "eol"), s, 0)

\* regexps.MatchString / FindStringSubmatch on an anchored regexp
FindStringSubmatch(re, s) == reMatchFrom(reTokens(re), s, 0)

(***************************************************************************)
(* Tree: prefix, fixRouters (sequence of Trees), wildCard (<<>> for nil or  *)
(* a one-element sequence holding the Tree), leaves (sequence of leafInfo). *)
(* A runObject is a positive number; Nil is the nil interface value.        *)
(***************************************************************************)
Nil == 0

NewTree == [prefix |-> <<>>, fixRouters |-> <<>>, wildCard |-> <<>>, leaves |-> <<>>]

leafInfo(route, wildcards, reg) ==
  [runObject |-> route, wildcards |-> wildcards,
   regexps |-> IF reg # <<>> THEN <<"^">> \o reg \o <<"$">> ELSE NoRegexp]

\* rr of addSeg/addTree: one group per wildcard already passed
RECURSIVE wildcardGroups(_)
wildcardGroups(wildcards) ==
  IF Len(wildcards) = 0 THEN <<>>
  ELSE (IF wildcards[1] = pSplat THEN rAny \o <<SLASH>> ELSE rSeg \o <<SLASH>>)
       \o wildcardGroups(Tail(wildcards))

\* "for range params { regexpStr = "/([^/]+)" + regexpStr }"
RECURSIVE segGroups(_)
segGroups(params) ==
  IF Len(params) = 0 THEN <<>>
  ELSE <<SLASH>> \o rSeg \o segGroups(Tail(params))

\* index of the fixRouter with this prefix, 0 when there is none
RECURSIVE findFix(_, _, _)
findFix(fixRouters, seg, i) ==
  IF i > Len(fixRouters) THEN 0
  ELSE IF fixRouters[i].prefix = seg THEN i
  ELSE findFix(fixRouters, seg, i + 1)

\* addSeg returns [t, panic]: the tree as the call left it, and whether
\* regexp.MustCompile panicked on the way (the mutations made before the
\* panic stay, the ones after it never happen)
RECURSIVE addSeg(_, _, _, _, _)

\* addSegLeaf that puts the new leaf in front of the node's leaves
addSegLeafFront(t, route, wildcards, reg) ==
  IF reg # <<>> /\ ~Compilable(<<"^">> \o reg \o <<"$">>)
  THEN [t |-> t, panic |-> TRUE]
  ELSE [t |-> [t EXCEPT !.leaves = <<leafInfo(route, wildcards, reg)>> \o t.leaves],
        panic |-> FALSE]

\* lines 210-215
addSegLeaf(t, route, wildcards, reg) ==
  IF reg # <<>> /\ ~Compilable(<<"^">> \o reg \o <<"$">>)
  THEN [t |-> t, panic |-> TRUE]
  ELSE [t |-> [t EXCEPT !.leaves = Append(t.leaves, leafInfo(route, wildcards, reg))],
        panic |-> FALSE]

\* line 266: the recursion into t.wildCard, created at lines 235-237
addSegWild(t, segments, route, wildcards, reg) ==
  LET sub == addSeg(IF t.wildCard = <<>> THEN NewTree ELSE t.wildCard[1],
                    Tail(segments), route, wildcards, reg)
  IN [t |-> [t EXCEPT !.wildCard = <<sub.t>>], panic |-> sub.panic]

\* lines 238-265: the regexp and the parameter names the segment contributes
segRegexp(seg, params, regexpStr, wildcards, reg) ==
  IF regexpStr # <<>> THEN
    IF reg = <<>> THEN wildcardGroups(wildcards) \o regexpStr
    ELSE <<SLASH>> \o regexpStr
  ELSE IF reg # <<>> THEN
    IF seg = sStarDot THEN <<SLASH>> \o rPathExt ELSE segGroups(params)
  ELSE <<>>

segParams(seg, params, regexpStr) ==
  IF regexpStr = <<>> /\ seg = sStarDot THEN Tail(params) ELSE params

\* lines 268-280: the recursion into fixRouters[j], appended when missing
addSegInto(t, j, segments, route, wildcards, reg) ==
  LET sub == addSeg(t.fixRouters[j], Tail(segments), route, wildcards, reg)
  IN [t |-> [t EXCEPT !.fixRouters[j] = sub.t], panic |-> sub.panic]

addSegFix(t, i, segments, route, wildcards, reg) ==
  addSegInto(IF i = 0
             THEN [t EXCEPT !.fixRouters =
                     Append(t.fixRouters, [NewTree EXCEPT !.prefix = Head(segments)])]
             ELSE t,
             IF i = 0 THEN Len(t.fixRouters) + 1 ELSE i,
             segments, route, wildcards, reg)

\* lines 234-281, with the segment classified as r = [isWild, params, regexpStr]
addSegRules(t, segments, route, wildcards, reg, r) ==
  IF r.isWild
  THEN addSegWild(t, segments, route,
                  wildcards \o segParams(Head(segments), r.params, r.regexpStr),
                  reg \o segRegexp(Head(segments), r.params, r.regexpStr, wildcards, reg))
  ELSE addSegFix(t, findFix(t.fixRouters, Head(segments), 1),
                 segments, route, wildcards, reg)

\* lines 224-233: a literal after a splat becomes a regexp, "*" after other
\* wildcards becomes (.+)
segRules(seg, ss, wildcards, reg) ==
  [isWild |-> ss.isWild \/ InSlice(pSplat, wildcards),
   params |-> ss.params,
   regexpStr |-> IF ~ss.isWild /\ InSlice(pSplat, wildcards) THEN seg
                 ELSE IF seg = sStar /\ Len(wildcards) > 0 /\ reg = <<>> THEN rAny
                 ELSE ss.regexpStr]

\* short is the result of the call made for an optional segment (line 221)
addSegShort(segments, route, wildcards, reg, ss, short) ==
  IF short.panic THEN short
  ELSE addSegRules(short.t, segments, route, wildcards, reg,
                   segRules(Head(segments), ss, wildcards, reg))

\* addSegSplit that registers only the pattern with the optional segment
addSegSplitLongOnly(t, segments, route, wildcards, reg, ss) ==
  addSegShort(segments, route, wildcards, reg,
              IF Len(ss.params) > 0 /\ ss.params[1] = pColon
              THEN [ss EXCEPT !.params = Tail(ss.params)] ELSE ss,
              [t |-> t, panic |-> FALSE])

\* lines 219-223: "?:name" first registers the pattern without the segment
addSegSplit(t, segments, route, wildcards, reg, ss) ==
  addSegShort(segments, route, wildcards, reg,
              IF Len(ss.params) > 0 /\ ss.params[1] = pColon
              THEN [ss EXCEPT !.params = Tail(ss.params)] ELSE ss,
              IF Len(ss.params) > 0 /\ ss.params[1] = pColon
              THEN addSeg(t, Tail(segments), route, wildcards, reg)
              ELSE [t |-> t, panic |-> FALSE])

addSeg(t, segments, route, wildcards, reg) ==
  IF Len(segments) = 0 THEN addSegLeaf(t, route, wildcards, reg)
  ELSE addSegSplit(t, segments, route, wildcards, reg, splitSegment(Head(segments)))

AddRouter(t, pattern, runObject) == addSeg(t, splitPath(pattern), runObject, <<>>, <<>>)

(***************************************************************************)
(* Matching.  The request context is reached only through ctx.SetParam, so  *)
(* a call threads the sequence of SetParam calls it has made (log); the     *)
(* parameter store is that sequence applied to the store the call started   *)
(* with.  A result carries panic = TRUE when the Go code indexes a slice    *)
(* out of range.                                                            *)
(***************************************************************************)
SetParamEntry(key, val) == [key |-> key, val |-> val]

\* leafInfo.match: [ok, log, panic]
RECURSIVE bindPositional(_, _, _, _, _)
bindPositional(names, values, j, n, log) ==
  \* ctx.SetParam(names[j], values[j]) for j up to n; panics past the values
  IF j > n THEN [ok |-> TRUE, log |-> log, panic |-> FALSE]
  ELSE IF j > Len(values) THEN [ok |-> FALSE, log |-> log, panic |-> TRUE]
  ELSE bindPositional(names, values, j + 1, n,
                      Append(log, SetParamEntry(names[j], values[j])))

RECURSIVE bindCaptures(_, _, _, _)
bindCaptures(names, caps, i, log) ==
  IF i > Len(caps) THEN log
  ELSE bindCaptures(names, caps, i + 1,
                    IF i <= Len(names) THEN Append(log, SetParamEntry(names[i], caps[i]))
                    ELSE log)

\* the "lastOne" part shared by both *.* cases (lines 408-413, 422-431):
\* SetParam(":ext") when the last value holds a ".", then SetParam(":path")
bindPathExtWith(values, from, emptyPath, strs, log) ==
  Append(IF Len(strs) = 2 THEN Append(log, SetParamEntry(pExt, strs[2])) ELSE log,
         SetParamEntry(pPath,
           IF emptyPath THEN <<>>
           ELSE pathJoin(<<pathJoin(Sub(values, from, Len(values) - 1)), strs[1]>>)))

bindPathExt(values, from, emptyPath, log) ==
  bindPathExtWith(values, from, emptyPath, SplitN2(values[Len(values)], "."), log)

\* lines 418-432: b is the outcome of the positional loop
leafMatchPathExtTail(nw, values, b) ==
  IF b.panic THEN b
  ELSE [ok |-> TRUE, panic |-> FALSE,
        log |-> bindPathExt(values, nw - 1, nw - 2 > Len(values) - 1, b.log)]

\* lines 406-433
leafMatchPathExt(names, nw, values, nv, log) ==
  IF nw = 2 THEN
    IF nv = 0 THEN [ok |-> FALSE, log |-> log, panic |-> TRUE]
    ELSE [ok |-> TRUE, log |-> bindPathExt(values, 1, FALSE, log), panic |-> FALSE]
  ELSE IF nv < 2 THEN [ok |-> FALSE, log |-> log, panic |-> FALSE]
  ELSE leafMatchPathExtTail(nw, values, bindPositional(names, values, 1, nw - 2, log))

\* leafMatchPlain without the comparison of the two lengths
leafMatchPlainAnyCount(names, nw, treePattern, values, nv, log) ==
  IF nv = 0 /\ nw = 0 THEN [ok |-> TRUE, log |-> log, panic |-> FALSE]
  ELSE IF nw = 1 /\ names[1] = pSplat
    THEN [ok |-> TRUE, log |-> Append(log, SetParamEntry(pSplat, treePattern)),
          panic |-> FALSE]
  ELSE IF nw >= 2 /\ names[nw - 1] = pPath /\ names[nw] = pExt
    THEN leafMatchPathExt(names, nw, values, nv, log)
  ELSE bindPositional(names, values, 1, IF nw < nv THEN nw ELSE nv, log)

\* lines 397-441
leafMatchPlain(names, nw, treePattern, values, nv, log) ==
  IF nv = 0 /\ nw = 0 THEN [ok |-> TRUE, log |-> log, panic |-> FALSE]
  ELSE IF nw = 1 /\ names[1] = pSplat
    THEN [ok |-> TRUE, log |-> Append(log, SetParamEntry(pSplat, treePattern)),
          panic |-> FALSE]
  ELSE IF nw >= 2 /\ names[nw - 1] = pPath /\ names[nw] = pExt
    THEN leafMatchPathExt(names, nw, values, nv, log)
  ELSE IF nw # nv THEN [ok |-> FALSE, log |-> log, panic |-> FALSE]
  ELSE bindPositional(names, values, 1, nw, log)

\* lines 444-453
leafMatchRegexp(names, m, log) ==
  IF m.ok THEN [ok |-> TRUE, log |-> bindCaptures(names, m.caps, 1, log), panic |-> FALSE]
  ELSE [ok |-> FALSE, log |-> log, panic |-> FALSE]

leafMatch(leaf, treePattern, wildcardValues, log) ==
  IF leaf.regexps = NoRegexp
  THEN leafMatchPlain(leaf.wildcards, Len(leaf.wildcards), treePattern,
                      wildcardValues, Len(wildcardValues), log)
  ELSE leafMatchRegexp(leaf.wildcards,
                       FindStringSubmatch(leaf.regexps, pathJoin(wildcardValues)), log)

\* one leaf of the loop below: r is what leafMatch said
matchLeaf(leaf, r) ==
  [found |-> r.ok /\ ~r.panic, obj |-> IF r.ok /\ ~r.panic THEN leaf.runObject ELSE Nil,
   log |-> r.log, panic |-> r.panic]

\* "for _, l := range leaves { if ok := l.match(...); ok { return l.runObject } }"
\* [found, obj, log, panic]
RECURSIVE matchLeaves(_, _, _, _, _)
RECURSIVE matchLeavesNext(_, _, _, _, _)
matchLeavesNext(leaves, i, treePattern, wildcardValues, m) ==
  IF m.panic \/ m.found THEN m
  ELSE matchLeaves(leaves, i + 1, treePattern, wildcardValues, m.log)

matchLeaves(leaves, i, treePattern, wildcardValues, log) ==
  IF i > Len(leaves) THEN [found |-> FALSE, obj |-> Nil, log |-> log, panic |-> FALSE]
  ELSE matchLeavesNext(leaves, i, treePattern, wildcardValues,
         matchLeaf(leaves[i], leafMatch(leaves[i], treePattern, wildcardValues, log)))

\* lines 362-374: the segments left in pattern, appended to wildcardValues
RECURSIVE restValues(_, _, _, _)
restValues(pattern, i, start, acc) ==
  \* i and start are Go's (0-based) loop variables
  IF i >= Len(pattern) THEN
    IF start > 0 THEN Append(acc, Sub(pattern, start + 1, i)) ELSE acc
  ELSE IF pattern[i + 1] = SLASH THEN
    restValues(pattern, i + 1, i + 1,
               IF i # 0 /\ start < Len(pattern)
               THEN Append(acc, Sub(pattern, start + 1, i)) ELSE acc)
  ELSE restValues(pattern, i + 1, start, acc)

RECURSIVE match(_, _, _, _, _)
RECURSIVE matchFix(_, _, _, _, _, _, _)
RECURSIVE matchFixNext(_, _, _, _, _, _, _)
RECURSIVE matchExtSub(_, _, _, _, _, _, _, _)
RECURSIVE matchExt(_, _, _, _, _, _, _, _)

\* lines 335-338: r is what subTree.match returned under treePattern tp
matchFixNext(fixRouters, i, seg, tp, pattern, wildcardValues, r) ==
  IF r.panic \/ r.obj # Nil
  THEN [obj |-> r.obj, log |-> r.log, panic |-> r.panic, treePattern |-> tp]
  ELSE matchFix(fixRouters, i + 1, seg, tp, pattern, wildcardValues, r.log)

\* lines 330-334
fixTreePattern(pattern) ==
  IF Len(pattern) # 0 /\ pattern[1] = SLASH THEN Tail(pattern) ELSE pattern

\* lines 328-340: [obj, log, panic, treePattern]
matchFix(fixRouters, i, seg, treePattern, pattern, wildcardValues, log) ==
  IF i > Len(fixRouters)
  THEN [obj |-> Nil, log |-> log, panic |-> FALSE, treePattern |-> treePattern]
  ELSE IF fixRouters[i].prefix = seg
  THEN matchFixNext(fixRouters, i, seg, fixTreePattern(pattern), pattern, wildcardValues,
                    match(fixRouters[i], fixTreePattern(pattern), pattern,
                          wildcardValues, log))
  ELSE matchFix(fixRouters, i + 1, seg, treePattern, pattern, wildcardValues, log)

\* lines 347-350: r is what subTree.match returned
matchExtFound(r, str) ==
  [obj |-> r.obj, panic |-> r.panic,
   log |-> IF ~r.panic /\ r.obj # Nil
           THEN Append(r.log, SetParamEntry(pExt, Tail(str))) ELSE r.log]

\* lines 345-352, the inner loop for one suffix str: cur is [obj, log, panic]
matchExtSub(fixRouters, i, stem, str, treePattern, pattern, wildcardValues, cur) ==
  IF i > Len(fixRouters) \/ cur.panic THEN cur
  ELSE matchExtSub(fixRouters, i + 1, stem, str, treePattern, pattern, wildcardValues,
         IF fixRouters[i].prefix = stem
         THEN matchExtFound(match(fixRouters[i], treePattern, pattern,
                                  wildcardValues, cur.log), str)
         ELSE cur)

\* lines 343-354, the loop over allowSuffixExt
matchExt(fixRouters, k, seg, treePattern, pattern, wildcardValues, cur, exts) ==
  IF k > Len(exts) \/ cur.panic THEN cur
  ELSE matchExt(fixRouters, k + 1, seg, treePattern, pattern, wildcardValues,
         IF HasSuffix(seg, exts[k])
         THEN matchExtSub(fixRouters, 1, Sub(seg, 1, Len(seg) - Len(exts[k])), exts[k],
                          treePattern, pattern, wildcardValues, cur)
         ELSE cur,
         exts)

\* [obj, log, panic] of a leaf loop's outcome
matchResult(a) == [obj |-> a.obj, log |-> a.log, panic |-> a.panic]

\* lines 308-315: a is the outcome of the loop over t.leaves
matchEnd(t, treePattern, wildcardValues, a) ==
  IF a.panic \/ a.found \/ t.wildCard = <<>> THEN matchResult(a)
  ELSE matchResult(matchLeaves(t.wildCard[1].leaves, 1, treePattern, wildcardValues, a.log))

\* lines 360-381: w is runObject after the wildcard child was tried
matchAfterWild(t, seg, pattern, wildcardValues, treePattern, w) ==
  IF ~w.panic /\ w.obj = Nil /\ Len(t.leaves) > 0
  THEN matchResult(matchLeaves(t.leaves, 1, treePattern,
                               restValues(pattern, 0, 0, Append(wildcardValues, seg)),
                               w.log))
  ELSE w

\* lines 356-358: e is runObject after the extension retry
matchAfterExt(t, seg, pattern, wildcardValues, treePattern, e) ==
  matchAfterWild(t, seg, pattern, wildcardValues, treePattern,
    IF e.obj = Nil /\ ~e.panic /\ t.wildCard # <<>>
    THEN match(t.wildCard[1], treePattern, pattern, Append(wildcardValues, seg), e.log)
    ELSE e)

\* matchAfterFix that gives up when a literal child with the segment exists
\* and did not lead to a match
matchAfterFixCommitted(t, seg, pattern, wildcardValues, f) ==
  IF \E i \in 1..Len(t.fixRouters) : t.fixRouters[i].prefix = seg
  THEN matchResult(f)
  ELSE matchAfterExt(t, seg, pattern, wildcardValues, f.treePattern,
         IF f.obj = Nil /\ ~f.panic /\ Len(t.fixRouters) > 0
         THEN matchExt(t.fixRouters, 1, seg, f.treePattern, pattern, wildcardValues,
                       matchResult(f), allowSuffixExt)
         ELSE matchResult(f))

\* matchAfterFix without the retry on the segment stripped of its extension
matchAfterFixNoExt(t, seg, pattern, wildcardValues, f) ==
  matchAfterExt(t, seg, pattern, wildcardValues, f.treePattern, matchResult(f))

\* lines 341-355: f is the outcome of the loop over fixRouters, which also
\* holds the treePattern that loop left behind
matchAfterFix(t, seg, pattern, wildcardValues, f) ==
  matchAfterExt(t, seg, pattern, wildcardValues, f.treePattern,
    IF f.obj = Nil /\ ~f.panic /\ Len(t.fixRouters) > 0
    THEN matchExt(t.fixRouters, 1, seg, f.treePattern, pattern, wildcardValues,
                  matchResult(f), allowSuffixExt)
    ELSE matchResult(f))

\* matchSeg with the wildcard child tried before the literal children
matchSegWildFirstThen(t, treePattern, seg, pattern, wildcardValues, w) ==
  IF w.panic \/ w.obj # Nil THEN w
  ELSE matchAfterFix(t, seg, pattern, wildcardValues,
         matchFix(t.fixRouters, 1, seg, treePattern, pattern, wildcardValues, w.log))

matchSegWildFirst(t, treePattern, seg, pattern, wildcardValues, log) ==
  matchSegWildFirstThen(t, treePattern, seg, pattern, wildcardValues,
    IF t.wildCard # <<>>
    THEN match(t.wildCard[1], treePattern, pattern, Append(wildcardValues, seg), log)
    ELSE [obj |-> Nil, log |-> log, panic |-> FALSE])

\* lines 328-381, with the first segment cut off pattern
matchSeg(t, treePattern, seg, pattern, wildcardValues, log) ==
  matchAfterFix(t, seg, pattern, wildcardValues,
                matchFix(t.fixRouters, 1, seg, treePattern, pattern, wildcardValues, log))

\* lines 317-327: k is the index of the first "/" of pattern, 0 for none
matchCut(t, treePattern, pattern, k, wildcardValues, log) ==
  matchSeg(t, treePattern,
           IF k = 0 THEN pattern ELSE Sub(pattern, 1, k - 1),
           IF k = 0 THEN <<>> ELSE Sub(pattern, k, Len(pattern)),
           wildcardValues, log)

\* lines 302-327, pattern being stripped of its leading slashes
matchTrimmed(t, treePattern, pattern, wildcardValues, log) ==
  IF Len(pattern) = 0
  THEN matchEnd(t, treePattern, wildcardValues,
                matchLeaves(t.leaves, 1, treePattern, wildcardValues, log))
  ELSE matchCut(t, treePattern, pattern, IndexFrom(pattern, SLASH, 1), wildcardValues, log)

\* Tree.match: [obj, log, panic]
match(t, treePattern, pattern, wildcardValues, log) ==
  matchTrimmed(t, treePattern, TrimLeft(pattern, {SLASH}), wildcardValues, log)

\* the SetParam calls of one Match, each with the context it was made on
onCtx(log, ctx) ==
  [i \in 1..Len(log) |-> [ctx |-> ctx, key |-> log[i].key, val |-> log[i].val]]

\* what Match hands back: the runObject, the SetParam calls made on ctx, and
\* whether the call panicked
matchOn(r, ctx) == [obj |-> r.obj, log |-> onCtx(r.log, ctx), panic |-> r.panic]

\* Match that makes its SetParam calls on the first context there is
MatchOnFirst(t, pattern, ctx) ==
  IF Len(pattern) = 0 \/ pattern[1] # SLASH
  THEN [obj |-> Nil, log |-> <<>>, panic |-> FALSE]
  ELSE matchOn(match(t, Tail(pattern), pattern, <<>>, <<>>), 1)

\* Tree.Match
Match(t, pattern, ctx) ==
  IF Len(pattern) = 0 \/ pattern[1] # SLASH
  THEN [obj |-> Nil, log |-> <<>>, panic |-> FALSE]
  ELSE matchOn(match(t, Tail(pattern), pattern, <<>>, <<>>), ctx)

(***************************************************************************)
(* Route removal (pkg/app.go)                                               *)
(***************************************************************************)
\* lines 302-318: the node fixRouters[i] is the one the route ends at
removeAt(t, i) ==
  IF Len(t.fixRouters[i].fixRouters) > 0
  THEN IF Len(t.fixRouters[i].leaves) > 0
       THEN [t EXCEPT !.fixRouters[i].leaves = Tail(t.fixRouters[i].leaves)]
       ELSE t
  ELSE [t EXCEPT !.fixRouters = Sub(t.fixRouters, 1, i - 1)
                                \o Sub(t.fixRouters, i + 1, Len(t.fixRouters))]

RECURSIVE findAndRemoveTree(_, _)
RECURSIVE findAndRemoveLoop(_, _, _)

\* the loop "for i := range entryPointTree.fixrouters" from index i on
findAndRemoveLoop(paths, t, i) ==
  IF i > Len(t.fixRouters) THEN t
  ELSE IF t.fixRouters[i].prefix = paths[1] THEN
    IF Len(paths) = 1 THEN removeAt(t, i)
    ELSE findAndRemoveLoop(paths,
           [t EXCEPT !.fixRouters[i] = findAndRemoveTree(Tail(paths), t.fixRouters[i])],
           i + 1)
  ELSE findAndRemoveLoop(paths, t, i + 1)

findAndRemoveTree(paths, entryPointTree) == findAndRemoveLoop(paths, entryPointTree, 1)

findAndRemoveSingleTree(entryPointTree) ==
  IF Len(entryPointTree.fixRouters) > 0 /\ Len(entryPointTree.leaves) > 0
  THEN [entryPointTree EXCEPT !.leaves = Tail(entryPointTree.leaves)]
  ELSE entryPointTree

\* strings.ToUpper on the method names in use
ToUpper(method) == IF method = "get" THEN "GET" ELSE method

\* lines 289-293, for the tree of one method
unregisterIn(t, fixedRoute) ==
  IF t.prefix = Trim(fixedRoute, {SLASH, " "})
  THEN findAndRemoveSingleTree(t)
  ELSE findAndRemoveTree(splitPath(fixedRoute), t)

\* the routers map after UnregisterFixedRoute(fixedRoute, method)
UnregisterFixedRoute(rs, fixedRoute, method) ==
  [m \in DOMAIN rs |->
     IF method \in {"", "*"} \/ ToUpper(method) = m
     THEN unregisterIn(rs[m], fixedRoute)
     ELSE rs[m]]

(***************************************************************************)
(* The request context's parameter store                                    *)
(***************************************************************************)
NoParams == [k \in {} |-> <<>>]

\* ctx.SetParam(key, val): the value stored under key is replaced
SetParam(store, key, val) == (key :> val) @@ store

\* the store of context ctx after the SetParam calls of log that were made
\* on it
RECURSIVE ApplyLog(_, _, _)
ApplyLog(store, log, ctx) ==
  IF Len(log) = 0 THEN store
  ELSE ApplyLog(IF log[1].ctx = ctx THEN SetParam(store, log[1].key, log[1].val)
                ELSE store,
                Tail(log), ctx)

(***************************************************************************)
(* The response writer (context/context.go) and the request context         *)
(***************************************************************************)
\* Write that lets the bytes out without marking the response as started
WriteNotStarted(ctx, p) == [ctx EXCEPT !.out = Append(ctx.out, p)]

\* Response.Write: "r.Started = true", then the bytes go out
Write(ctx, p) == [ctx EXCEPT !.Started = TRUE, !.out = Append(ctx.out, p)]

\* Response.WriteHeader: only the first status counts
WriteHeader(ctx, code) ==
  IF ctx.Status # "" THEN ctx
  ELSE [ctx EXCEPT !.Status = code, !.Started = TRUE]

\* the SetParam calls of a Match, made on the context itself
bind(ctx, log) == [ctx EXCEPT !.params = ApplyLog(ctx.params, log, ctx.id)]

\* what the request leaves behind for inspection
note(ctx, event) == [ctx EXCEPT !.trace = Append(ctx.trace, event)]

\* context.Reset for a new request
NewContext(id, path, static) ==
  [id |-> id, path |-> path, static |-> static, pc |-> "BeforeStatic",
   Started |-> FALSE, Status |-> "", out |-> <<>>, params |-> NoParams,
   obj |-> Nil, panicking |-> FALSE, trace |-> <<>>]

(***************************************************************************)
(* The dispatch pipeline: filters and their stages                          *)
(***************************************************************************)
BeforeStatic == "BeforeStatic"
BeforeRouter == "BeforeRouter"
BeforeExec   == "BeforeExec"
AfterExec    == "AfterExec"
FinishRouter == "FinishRouter"

Positions == {BeforeStatic, BeforeRouter, BeforeExec, AfterExec, FinishRouter}

\* the stage's place in the fixed order
Rank(pos) ==
  CASE pos = BeforeStatic -> 0
    [] pos = BeforeRouter -> 1
    [] pos = BeforeExec -> 2
    [] pos = AfterExec -> 3
    [] pos = FinishRouter -> 4

\* NewControllerRegister: no filters
NoFilters == [pos \in Positions |-> <<>>]

\* the FilterRouter InsertFilter builds: the pattern compiled into a tree of
\* its own; params[1] is returnOnOutput (default true), params[2] is
\* resetParams (default false)
FilterRouter(pattern, filterFunc, params) ==
  [pattern |-> pattern,
   tree |-> AddRouter(NewTree, pattern, 1).t,
   filterFunc |-> filterFunc,
   returnOnOutput |-> IF Len(params) >= 1 THEN params[1] ELSE TRUE,
   resetParams |-> IF Len(params) >= 2 THEN params[2] ELSE FALSE]

\* ControllerRegister.InsertFilter: the filter goes to the end of its stage
HandlersInsertFilter(fs, pattern, pos, filterFunc, params) ==
  [fs EXCEPT ![pos] = Append(fs[pos], FilterRouter(pattern, filterFunc, params))]

\* asana.InsertFilter hands its arguments on
InsertFilter(fs, pattern, pos, filterFunc, params) ==
  HandlersInsertFilter(fs, pattern, pos, filterFunc, params)

\* the filter functions of the tests: one writes to the response, one does not
filterFuncCall(ctx, f) ==
  IF f.filterFunc = "Output" THEN Write(ctx, "filter") ELSE ctx

\* restoreParams that leaves the filter's bindings in place
restoreNothing(ctx, f, preFilterParams) == ctx

\* resetParams: the bindings the context had before the filter come back
restoreParams(ctx, f, preFilterParams) ==
  IF f.resetParams THEN [ctx EXCEPT !.params = preFilterParams] ELSE ctx

\* the filter has run on ctx1; ctx0 is the context before its pattern match
filterRan(ctx0, seen, ctx1, f, pos, i) ==
  note(ctx1, [kind |-> "filter", pos |-> pos, idx |-> i,
              returnOnOutput |-> f.returnOnOutput, resetParams |-> f.resetParams,
              outBefore |-> ctx0.out, outAfter |-> ctx1.out,
              paramsBefore |-> ctx0.params,
              paramsSeen |-> seen, paramsAfter |-> ctx1.params])

\* one filter of a stage: m is what ValidRouter's Match on the filter's own
\* tree said; the filter runs when its pattern matches the request path
runFilter(ctx, f, pos, i, m) ==
  IF m.obj = Nil THEN bind(ctx, m.log)
  ELSE filterRan(ctx, bind(ctx, m.log).params,
                 restoreParams(filterFuncCall(bind(ctx, m.log), f), f, ctx.params),
                 f, pos, i)

\* execFilter: [ctx, started]; started = TRUE ends the whole pipeline.  A
\* returnOnOutput filter is neither run on a started response nor followed
\* by anything once the response is started
RECURSIVE execFilter(_, _, _, _)
execFilterAfter(ctx, fs, pos, i) ==
  IF fs[i].returnOnOutput /\ ctx.Started THEN [ctx |-> ctx, started |-> TRUE]
  ELSE execFilter(ctx, fs, pos, i + 1)

execFilterMatched(ctx, fs, pos, i, m) ==
  IF m.panic
  THEN [ctx |-> [bind(ctx, m.log) EXCEPT !.panicking = TRUE], started |-> FALSE]
  ELSE execFilterAfter(runFilter(ctx, fs[i], pos, i, m), fs, pos, i)

\* execFilter that treats every filter as a returnOnOutput filter
execFilterAllReturn(ctx, fs, pos, i) ==
  IF i > Len(fs) THEN [ctx |-> ctx, started |-> FALSE]
  ELSE IF ctx.Started THEN [ctx |-> ctx, started |-> TRUE]
  ELSE execFilterMatched(ctx, fs, pos, i, Match(fs[i].tree, ctx.path, ctx.id))

execFilter(ctx, fs, pos, i) ==
  IF i > Len(fs) THEN [ctx |-> ctx, started |-> FALSE]
  ELSE IF fs[i].returnOnOutput /\ ctx.Started THEN [ctx |-> ctx, started |-> TRUE]
  ELSE execFilterMatched(ctx, fs, pos, i, Match(fs[i].tree, ctx.path, ctx.id))

\* AfterStage that goes from the BeforeRouter filters straight to BeforeExec
AfterStageNoMatch(pos) ==
  CASE pos = BeforeStatic -> "Static"
    [] pos = BeforeRouter -> BeforeExec
    [] pos = BeforeExec -> "Invoke"
    [] pos = AfterExec -> FinishRouter
    [] pos = FinishRouter -> "Done"

\* where ServeHTTP goes after a stage that did not end the pipeline
AfterStage(pos) ==
  CASE pos = BeforeStatic -> "Static"
    [] pos = BeforeRouter -> "RouteMatch"
    [] pos = BeforeExec -> "Invoke"
    [] pos = AfterExec -> FinishRouter
    [] pos = FinishRouter -> "Done"

\* a stage of ServeHTTP: r is what execFilter returned.  A panic, of a
\* filter or of the handler before it, goes on to the recovery boundary
stageDone(pos, r) ==
  [r.ctx EXCEPT !.pc = IF r.ctx.panicking THEN "Recover"
                       ELSE IF r.started THEN "Done"
                       ELSE AfterStage(pos)]

runStage(ctx, fs, pos) ==
  stageDone(pos, execFilter(note(ctx, [kind |-> "stage", pos |-> pos]), fs[pos], pos, 1))

\* serverStaticRouter: a request that is not for a static file is left
\* alone, any other is answered (file, listing, redirect, 403 or 404)
serverStaticRouter(ctx) ==
  IF ctx.static THEN Write(note(ctx, [kind |-> "static"]), "static") ELSE ctx

\* the static short-circuit of ServeHTTP
staticDone(ctx) ==
  [ctx EXCEPT !.pc = IF ctx.Started THEN "Done" ELSE BeforeRouter]

\* RouteMatch: m is what Match on the method's tree said; no match is
\* answered with 404
routeMatched(ctx, m) ==
  IF m.panic THEN [bind(ctx, m.log) EXCEPT !.panicking = TRUE, !.pc = "Recover"]
  ELSE IF m.obj = Nil
    THEN [WriteHeader(note(bind(ctx, m.log), [kind |-> "notfound"]), "404")
            EXCEPT !.pc = "Done"]
  ELSE [note(bind(ctx, m.log), [kind |-> "match", obj |-> m.obj])
          EXCEPT !.obj = m.obj, !.pc = BeforeExec]

\* Invoke: the endpoint is called once; it may write, and it may panic, in
\* which case AfterExec is skipped and FinishRouter still gets its turn
handlerCalled(ctx, outcome) ==
  note(ctx, [kind |-> "handler", obj |-> ctx.obj, params |-> ctx.params,
             outcome |-> outcome])

\* invoke whose panic goes straight to the recovery boundary
invokeNoFinish(ctx, outcome) ==
  CASE outcome = "silent" -> [handlerCalled(ctx, outcome) EXCEPT !.pc = AfterExec]
    [] outcome = "output" ->
         [Write(handlerCalled(ctx, outcome), "hello") EXCEPT !.pc = AfterExec]
    [] outcome = "panic" ->
         [handlerCalled(ctx, outcome) EXCEPT !.panicking = TRUE, !.pc = "Recover"]

invoke(ctx, outcome) ==
  CASE outcome = "silent" -> [handlerCalled(ctx, outcome) EXCEPT !.pc = AfterExec]
    [] outcome = "output" ->
         [Write(handlerCalled(ctx, outcome), "hello") EXCEPT !.pc = AfterExec]
    [] outcome = "panic" ->
         [handlerCalled(ctx, outcome) EXCEPT !.panicking = TRUE, !.pc = FinishRouter]

\* recoverPanic with the default configuration (RecoverPanic = true): the
\* status already set, or else 500, is written
recoverPanic(ctx) ==
  [WriteHeader(note(ctx, [kind |-> "recover"]),
               IF ctx.Status # "" THEN ctx.Status ELSE "500")
     EXCEPT !.pc = "Done", !.panicking = FALSE]

(***************************************************************************)
(* Bounds and the vocabulary of patterns and request paths                  *)
(***************************************************************************)
MaxRoutes == 3

sUser  == <<"u", "s", "e", "r">>
sList  == <<"l", "i", "s", "t">>
sLogin == <<"l", "o", "g", "i", "n">>
s2009  == <<"2", "0", "0", "9">>
s11    == <<"1", "1">>
sId    == <<":", "i", "d">>
sJson  == <<".", "j", "s", "o", "n">>

\* "/a/b/..." from its segments
Path(segs) == <<SLASH>> \o JoinSlash(segs)

ptRoot      == <<SLASH>>
ptUser      == Path(<<sUser>>)
ptUserList  == Path(<<sUser, sList>>)
ptUserId    == Path(<<sUser, sId>>)
ptLoginStar == Path(<<sLogin, sStar>>)
ptLogin2009 == Path(<<sLogin, s2009>>)

Patterns == {ptUserList, ptUserId, ptLoginStar, ptLogin2009, ptUser, ptRoot}

RequestPaths ==
  { ptRoot, ptUser, ptUserList, Path(<<sUser, s11>>), Path(<<sUser, sList \o sJson>>),
    Path(<<sLogin>>), Path(<<sLogin, s11>>), Path(<<sLogin, s2009>>),
    Path(<<sLogin, s2009, s11>>), Path(<<sLogin, s11, s2009>>),
    Path(<<sLogin, s2009 \o sJson, s11>>),
    <<SLASH>> \o sLogin \o <<SLASH, SLASH>> \o s11,
    Path(<<sLogin, s11>>) \o <<SLASH>>,
    sUser }

(***************************************************************************)
(* State                                                                    *)
(***************************************************************************)
VARIABLES
  routers,   \* Handlers.routers: HTTP method -> Tree
  routes,    \* the registrations made so far, in order: [method, pattern, obj]
  filters,   \* Handlers.filters: stage -> sequence of FilterRouter
  req,       \* the request contexts: request id -> context record
  last       \* the last administrative operation, for stating frame conditions

vars == <<routers, routes, filters, req, last>>

GET == "GET"

NoOp == [op |-> "none"]

\* a context on which Tree.Match has run to completion
Matched(path, r, ctx) ==
  [path |-> path, obj |-> r.obj, panic |-> r.panic,
   params |-> ApplyLog(NoParams, r.log, ctx), log |-> r.log]

Init ==
  /\ routers = (GET :> NewTree)
  /\ routes = <<>>
  /\ filters = NoFilters
  /\ req = <<>>
  /\ last = NoOp

\* p.routers[method].AddRouter(pattern, runObject), the runObject being the
\* number of the registration
AddRoute(method, pattern) ==
  /\ Len(routes) < MaxRoutes
  /\ LET obj == Len(routes) + 1
         a == AddRouter(routers[method], pattern, obj)
     IN /\ routers' = [routers EXCEPT ![method] = a.t]
        /\ routes' = Append(routes, [method |-> method, pattern |-> pattern,
                                     obj |-> obj, state |-> "live"])
        /\ req' = <<>>
        /\ last' = [op |-> "AddRouter", pattern |-> pattern, method |-> method,
                    panic |-> a.panic, before |-> routers]
  /\ UNCHANGED filters

\* t.Match(path, ctx) on a fresh context
DoMatch(method, path) ==
  /\ Len(routes) > 0
  /\ req' = <<Matched(path, Match(routers[method], path, 1), 1)>>
  /\ UNCHANGED <<routers, routes, filters, last>>

Next ==
  \/ \E pt \in Patterns : AddRoute(GET, pt)
  \/ \E path \in RequestPaths : DoMatch(GET, path)

Spec == Init /\ [][Next]_vars

(***************************************************************************)
(* Registration and removal of fixed routes                                 *)
(***************************************************************************)
RemovePatterns == {ptRoot, ptUser, ptUserList, ptUserId}

FixedRoutes == {ptRoot, ptUser, ptUserList}

RemovePaths == {ptRoot, ptUser, ptUserList, Path(<<sUser, s11>>)}

UnregisterMethods == {"get", "*"}

\* the registrations of pattern under method that no removal has touched
LiveOf(pattern, method) ==
  {i \in 1..Len(routes) :
     /\ routes[i].pattern = pattern
     /\ routes[i].state = "live"
     /\ (method \in {"", "*"} \/ ToUpper(method) = routes[i].method)}

\* UnregisterFixedRoute(fixedRoute, method).  The registration record keeps
\* what the call was meant to do: the one live registration of the route is
\* "gone"; when there were several, which of them went is left "unknown"
Unregister(fixedRoute, method) ==
  /\ Len(routes) > 0
  /\ routers' = UnregisterFixedRoute(routers, fixedRoute, method)
  /\ routes' = [i \in 1..Len(routes) |->
                  IF i \in LiveOf(fixedRoute, method)
                  THEN [routes[i] EXCEPT !.state =
                          IF Cardinality(LiveOf(fixedRoute, method)) = 1
                          THEN "gone" ELSE "unknown"]
                  ELSE routes[i]]
  /\ req' = <<>>
  /\ last' = [op |-> "Unregister", pattern |-> fixedRoute, method |-> method,
              panic |-> FALSE, before |-> routers]
  /\ UNCHANGED filters

NextRemove ==
  \/ \E pt \in RemovePatterns : AddRoute(GET, pt)
  \/ \E pt \in FixedRoutes, m \in UnregisterMethods : Unregister(pt, m)
  \/ \E path \in RemovePaths : DoMatch(GET, path)

SpecRemove == Init /\ [][NextRemove]_vars

(***************************************************************************)
(* Requests through the pipeline                                            *)
(***************************************************************************)
MaxFilters == 2

ptStar == sStar

sAdmin == <<"a", "d", "m", "i", "n">>

PipePatterns == {ptLoginStar}

FilterPatterns == {ptStar, ptUser}

FilterFuncs == {"NoOutput", "Output"}

\* the variadic bool params of InsertFilter
FilterParams == {<<>>, <<FALSE>>, <<TRUE, TRUE>>, <<FALSE, TRUE>>}

pathLogin == Path(<<sLogin, s2009, s11>>)

\* (path, static): the last one is a request for a file under a static dir
Requests == {<<pathLogin, FALSE>>, <<ptUser, FALSE>>, <<Path(<<sAdmin>>), TRUE>>}

HandlerOutcomes == {"silent", "output", "panic"}

NumFilters == Len(filters[BeforeStatic]) + Len(filters[BeforeRouter])
              + Len(filters[BeforeExec]) + Len(filters[AfterExec])
              + Len(filters[FinishRouter])

Idle == req = <<>> \/ (Len(req) = 1 /\ req[1].pc = "Done")

\* asana.InsertFilter(pattern, pos, filterFunc, params...)
DoInsertFilter(pattern, pos, filterFunc, params) ==
  /\ NumFilters < MaxFilters
  /\ filters' = InsertFilter(filters, pattern, pos, filterFunc, params)
  /\ req' = <<>>
  /\ UNCHANGED <<routers, routes, last>>

\* ServeHTTP is entered with a reset context
ServeHTTP(path, static) ==
  /\ Idle
  /\ req' = <<NewContext(1, path, static)>>
  /\ UNCHANGED <<routers, routes, filters, last>>

\* one of the five filter stages
Stage(pos) ==
  /\ Len(req) = 1
  /\ req[1].pc = pos
  /\ req' = <<runStage(req[1], filters, pos)>>
  /\ UNCHANGED <<routers, routes, filters, last>>

Static ==
  /\ Len(req) = 1
  /\ req[1].pc = "Static"
  /\ req' = <<staticDone(serverStaticRouter(req[1]))>>
  /\ UNCHANGED <<routers, routes, filters, last>>

RouteMatch ==
  /\ Len(req) = 1
  /\ req[1].pc = "RouteMatch"
  /\ req' = <<routeMatched(req[1], Match(routers[GET], req[1].path, 1))>>
  /\ UNCHANGED <<routers, routes, filters, last>>

Invoke(outcome) ==
  /\ Len(req) = 1
  /\ req[1].pc = "Invoke"
  /\ req' = <<invoke(req[1], outcome)>>
  /\ UNCHANGED <<routers, routes, filters, last>>

Recover ==
  /\ Len(req) = 1
  /\ req[1].pc = "Recover"
  /\ req' = <<recoverPanic(req[1])>>
  /\ UNCHANGED <<routers, routes, filters, last>>

NextPipe ==
  \/ \E pt \in PipePatterns : AddRoute(GET, pt)
  \/ \E pt \in FilterPatterns, pos \in Positions, f \in FilterFuncs, ps \in FilterParams :
       DoInsertFilter(pt, pos, f, ps)
  \/ \E r \in Requests : ServeHTTP(r[1], r[2])
  \/ \E pos \in Positions : Stage(pos)
  \/ Static
  \/ RouteMatch
  \/ \E o \in HandlerOutcomes : Invoke(o)
  \/ Recover

SpecPipe == Init /\ [][NextPipe]_vars

(***************************************************************************)
(* Concurrent Match calls on one tree.  A call reads the tree and touches   *)
(* its context only through ctx.SetParam, so the calls interleave at their  *)
(* SetParam calls.                                                          *)
(***************************************************************************)
MaxRequests == 2

ConcPatterns == {ptUserId, ptUserList, ptLoginStar}

ConcPaths ==
  {Path(<<sUser, s11>>), Path(<<sUser, sList \o sJson>>), pathLogin, Path(<<sLogin, s11>>)}

\* a goroutine enters t.Match(path, ctx) with a context of its own: pending
\* holds the SetParam calls it has yet to make, ret what it will return
enterMatch(id, path, m) ==
  [id |-> id, path |-> path, pc |-> "matching", pending |-> m.log, log |-> m.log,
   ret |-> m.obj, obj |-> Nil, params |-> NoParams]

BeginMatch(path) ==
  /\ Len(routes) > 0
  /\ Len(req) < MaxRequests
  /\ req' = Append(req, enterMatch(Len(req) + 1, path,
                                   Match(routers[GET], path, Len(req) + 1)))
  /\ UNCHANGED <<routers, routes, filters, last>>

\* the next ctx.SetParam(key, val) of call c, on the context the call names
SetParamStep(c) ==
  /\ c \in 1..Len(req)
  /\ req[c].pc = "matching"
  /\ req[c].pending # <<>>
  /\ req' = [d \in 1..Len(req) |->
               [req[d] EXCEPT
                  !.params = IF Head(req[c].pending).ctx = d
                             THEN SetParam(req[d].params, Head(req[c].pending).key,
                                           Head(req[c].pending).val)
                             ELSE req[d].params,
                  !.pending = IF d = c THEN Tail(req[c].pending) ELSE req[d].pending]]
  /\ UNCHANGED <<routers, routes, filters, last>>

\* call c returns its runObject
ReturnMatch(c) ==
  /\ c \in 1..Len(req)
  /\ req[c].pc = "matching"
  /\ req[c].pending = <<>>
  /\ req' = [req EXCEPT ![c].pc = "returned", ![c].obj = req[c].ret]
  /\ UNCHANGED <<routers, routes, filters, last>>

NextConc ==
  \/ \E pt \in ConcPatterns : AddRoute(GET, pt)
  \/ \E path \in ConcPaths : BeginMatch(path)
  \/ \E c \in 1..MaxRequests : SetParamStep(c)
  \/ \E c \in 1..MaxRequests : ReturnMatch(c)

SpecConc == Init /\ [][NextConc]_vars

(***************************************************************************)
(* Properties                                                               *)
(***************************************************************************)
\* the patterns registered and not removed
Registered(pattern) ==
  \E i \in 1..Len(routes) : routes[i].pattern = pattern /\ routes[i].state = "live"

\* p has a named parameter in place of one or more of l's literal segments
ParamInPlace(l, p) ==
  /\ Len(splitPath(l)) = Len(splitPath(p))
  /\ \A i \in 1..Len(splitPath(l)) :
       \/ splitPath(p)[i] = splitPath(l)[i]
       \/ /\ splitPath(p)[i][1] = ":"
          /\ splitSegment(splitPath(p)[i]).regexpStr = <<>>
  /\ splitPath(l) # splitPath(p)
  /\ \A i \in 1..Len(splitPath(l)) : ~splitSegment(splitPath(l)[i]).isWild

\* C1: when a literal pattern and a pattern with a named parameter in place
\* of one of its segments are both registered, in either order and whatever
\* else is registered, Match on the literal pattern's own path returns an
\* endpoint registered under the literal pattern.
C1_LiteralOverWildcard ==
  \A c \in 1..Len(req) :
    \A l \in Patterns, p \in Patterns :
      ( /\ Registered(l) /\ Registered(p)
        /\ ParamInPlace(l, p)
        /\ req[c].path = l )
      => /\ req[c].obj # Nil
         /\ routes[req[c].obj].pattern = l

\* C1 witness: /user/:id was registered before /user/list and the request
\* /user/list resolved to the later, literal registration
C1_Witness ==
  /\ Len(req) = 1 /\ Len(routes) >= 2
  /\ routes[1].pattern = ptUserId
  /\ routes[2].pattern = ptUserList
  /\ req[1].path = ptUserList
  /\ req[1].obj = 2

\* the raw rest of path after the literal segments of a pattern "/x/*"
RawRemainder(path, pattern) ==
  Sub(path, Len(pattern), Len(path))

\* C2: a match that ends at the no-regexp leaf of /login/* binds :splat to
\* all of the request path after "/login/", slashes included, whatever
\* other routes are registered.
C2_SplatRawRemainder ==
  \A c \in 1..Len(req) :
    ( /\ req[c].obj # Nil
      /\ routes[req[c].obj].pattern = ptLoginStar
      /\ HasPrefix(req[c].path, Path(<<sLogin>>) \o <<SLASH>>) )
    => /\ pSplat \in DOMAIN req[c].params
       /\ req[c].params[pSplat] = RawRemainder(req[c].path, ptLoginStar)

\* C8: after UnregisterFixedRoute(p, method) on a registered route p, every
\* path that resolved to another live route q before the removal resolves to
\* the same endpoint with the same bindings.
C8_RemovalPreservesSiblings ==
  ( /\ last.op = "Unregister"
    /\ \E i \in 1..Len(routes) :
         routes[i].pattern = last.pattern /\ routes[i].state # "live" )
  => \A path \in RemovePaths :
       \A q \in 1..Len(routes) :
         ( /\ routes[q].pattern # last.pattern
           /\ routes[q].state = "live"
           /\ Match(last.before[GET], path, 1).obj = q )
         => Match(routers[GET], path, 1) = Match(last.before[GET], path, 1)

\* C9: once the only registration of a fixed route has been unregistered,
\* no request resolves to that registration's endpoint any more.
C9_RemovedRouteNoMatch ==
  \A c \in 1..Len(req) :
    req[c].obj # Nil => routes[req[c].obj].state # "gone"

\* the filter events, handler events and stage marks of request c
IsFilterEvent(c, i) == req[c].trace[i].kind = "filter"

IsHandlerEvent(c, i) == req[c].trace[i].kind = "handler"

StageRan(c, pos) ==
  \E i \in 1..Len(req[c].trace) :
    req[c].trace[i].kind = "stage" /\ req[c].trace[i].pos = pos

FilterRanAt(c, pos, k) ==
  \E i \in 1..Len(req[c].trace) :
    IsFilterEvent(c, i) /\ req[c].trace[i].pos = pos /\ req[c].trace[i].idx = k

HandlerWrote(c) ==
  \E i \in 1..Len(req[c].trace) :
    IsHandlerEvent(c, i) /\ req[c].trace[i].outcome = "output"

\* the filter's own pattern matches the request path
FilterMatches(f, path) == Match(f.tree, path, 1).obj # Nil

\* C3: once a BeforeRouter or BeforeExec filter with returnOnOutput = true
\* has run and written output, the request sees no handler call and no
\* filter of a later stage.
C3_EarlyExit ==
  \A c \in 1..Len(req) :
    \A i \in 1..Len(req[c].trace) :
      ( /\ IsFilterEvent(c, i)
        /\ req[c].trace[i].pos \in {BeforeRouter, BeforeExec}
        /\ req[c].trace[i].returnOnOutput
        /\ req[c].trace[i].outAfter # req[c].trace[i].outBefore )
      => \A j \in (i + 1)..Len(req[c].trace) :
           /\ ~IsHandlerEvent(c, j)
           /\ ~( /\ IsFilterEvent(c, j)
                 /\ Rank(req[c].trace[j].pos) > Rank(req[c].trace[i].pos) )

\* C3 witness: the route matched, a default BeforeExec filter wrote, the
\* request is over, and the FinishRouter filter that is registered for the
\* path was not run
C3_Witness ==
  /\ Len(req) = 1
  /\ req[1].pc = "Done"
  /\ req[1].obj # Nil
  /\ Len(filters[FinishRouter]) = 1
  /\ FilterMatches(filters[FinishRouter][1], req[1].path)
  /\ \E i \in 1..Len(req[1].trace) :
       /\ IsFilterEvent(1, i)
       /\ req[1].trace[i].pos = BeforeExec
       /\ req[1].trace[i].returnOnOutput
       /\ req[1].trace[i].outAfter # req[1].trace[i].outBefore

\* C4: the filters of a stage run in registration order, and after the
\* handler has written output every AfterExec or FinishRouter filter that
\* matches the path and has only returnOnOutput = false filters before it
\* in its stage runs, provided the stage was reached.
C4_NoReturnFiltersRun ==
  \A c \in 1..Len(req) :
    /\ \A i \in 1..Len(req[c].trace), j \in 1..Len(req[c].trace) :
         ( /\ i < j
           /\ IsFilterEvent(c, i) /\ IsFilterEvent(c, j)
           /\ req[c].trace[i].pos = req[c].trace[j].pos )
         => req[c].trace[i].idx < req[c].trace[j].idx
    /\ \A pos \in {AfterExec, FinishRouter} :
         (StageRan(c, pos) /\ HandlerWrote(c))
         => \A k \in 1..Len(filters[pos]) :
              ( /\ \A j \in 1..k : ~filters[pos][j].returnOnOutput
                /\ FilterMatches(filters[pos][k], req[c].path) )
              => FilterRanAt(c, pos, k)

\* C4 witness: the handler wrote, and two FinishRouter filters registered
\* with returnOnOutput = false both ran on the started response
C4_Witness ==
  /\ Len(req) = 1
  /\ req[1].pc = "Done"
  /\ HandlerWrote(1)
  /\ Len(filters[FinishRouter]) = 2
  /\ \E i \in 1..Len(req[1].trace) :
       /\ IsFilterEvent(1, i)
       /\ req[1].trace[i].pos = FinishRouter /\ req[1].trace[i].idx = 1
       /\ req[1].trace[i].outBefore # <<>>
       /\ i < Len(req[1].trace)
       /\ IsFilterEvent(1, i + 1)
       /\ req[1].trace[i + 1].pos = FinishRouter /\ req[1].trace[i + 1].idx = 2

C6_FinishAfterPanic ==
  \A c \in 1..Len(req) :
    \A i \in 1..Len(req[c].trace) :
      ( /\ IsHandlerEvent(c, i)
        /\ req[c].trace[i].outcome = "panic"
        /\ req[c].pc \in {"Recover", "Done"} )
      => /\ \E j \in (i + 1)..Len(req[c].trace) :
              /\ req[c].trace[j].kind = "stage"
              /\ req[c].trace[j].pos = FinishRouter
              /\ \A r \in 1..j : req[c].trace[r].kind # "recover"
         /\ \A j \in 1..Len(req[c].trace) : IsHandlerEvent(c, j) => j = i
         /\ \A k \in 1..Len(filters[FinishRouter]) :
              ( /\ \A j \in 1..k : ~filters[FinishRouter][j].returnOnOutput
                /\ FilterMatches(filters[FinishRouter][k], req[c].path) )
              => FilterRanAt(c, FinishRouter, k)

\* C6 witness: the handler panicked, a FinishRouter filter then ran, and
\* the recovery boundary came last
C6_Witness ==
  /\ Len(req) = 1
  /\ req[1].pc = "Done"
  /\ \E i \in 1..Len(req[1].trace), j \in 1..Len(req[1].trace) :
       /\ i < j
       /\ IsHandlerEvent(1, i) /\ req[1].trace[i].outcome = "panic"
       /\ IsFilterEvent(1, j) /\ req[1].trace[j].pos = FinishRouter
       /\ req[1].trace[Len(req[1].trace)].kind = "recover"

\* C7: a filter registered with resetParams = true leaves the bindings as
\* they were before it was run, and when every BeforeExec filter that ran
\* was such a filter the handler of /login/* sees the route's own :splat.
C7_ResetParams ==
  \A c \in 1..Len(req) :
    \A i \in 1..Len(req[c].trace) :
      /\ (IsFilterEvent(c, i) /\ req[c].trace[i].resetParams)
         => req[c].trace[i].paramsAfter = req[c].trace[i].paramsBefore
      /\ ( /\ IsHandlerEvent(c, i)
           /\ routes[req[c].trace[i].obj].pattern = ptLoginStar
           /\ \A j \in 1..i :
                (IsFilterEvent(c, j) /\ req[c].trace[j].pos = BeforeExec)
                => req[c].trace[j].resetParams )
         => /\ pSplat \in DOMAIN req[c].trace[i].params
            /\ req[c].trace[i].params[pSplat] = RawRemainder(req[c].path, ptLoginStar)

\* C7 witness: a BeforeExec filter on "*" with resetParams saw its own
\* :splat, and the handler after it saw the route's
C7_Witness ==
  /\ Len(req) = 1
  /\ \E i \in 1..Len(req[1].trace), j \in 1..Len(req[1].trace) :
       /\ i < j
       /\ IsFilterEvent(1, i)
       /\ req[1].trace[i].pos = BeforeExec
       /\ req[1].trace[i].resetParams
       /\ pSplat \in DOMAIN req[1].trace[i].paramsSeen
       /\ req[1].trace[i].paramsSeen[pSplat] = Tail(req[1].path)
       /\ IsHandlerEvent(1, j)
       /\ req[1].trace[j].params[pSplat] = RawRemainder(req[1].path, ptLoginStar)
       /\ req[1].trace[j].params[pSplat] # req[1].trace[i].paramsSeen[pSplat]

\* what call c has bound so far when it runs alone: its own SetParam calls,
\* less the ones still to come
OwnBindings(c) ==
  ApplyLog(NoParams, Sub(req[c].log, 1, Len(req[c].log) - Len(req[c].pending)), c)

\* every context holds the bindings of its own call and nothing else, and a
\* returned call has the endpoint Match gives for its path on the tree
MatchIsolated ==
  \A c \in 1..Len(req) :
    /\ req[c].params = OwnBindings(c)
    /\ \A e \in 1..Len(req[c].log) : req[c].log[e].ctx = c
    /\ req[c].pc = "returned"
       => /\ req[c].obj = Match(routers[GET], req[c].path, c).obj
          /\ req[c].params = ApplyLog(NoParams, Match(routers[GET], req[c].path, c).log, c)

\* a step that leaves calls in flight leaves the trees as they are
TreeUntouched == req' # <<>> => routers' = routers

\* C10: Match calls running concurrently on one tree, each on its own
\* context, never change the tree, each returns the endpoint and writes the
\* bindings it would alone, and no binding shows up in another context.
C10_ConcurrentMatch == [](MatchIsolated) /\ [][TreeUntouched]_vars

\* C10 witness: two calls in flight on /user/:id with different ids; the
\* second has bound its :id while the first has yet to bind its own
C10_Witness ==
  /\ Len(req) = 2
  /\ req[1].pc = "matching" /\ req[2].pc = "matching"
  /\ req[1].pending # <<>>
  /\ req[1].pending[1].key = sId
  /\ req[2].pending = <<>>
  /\ sId \in DOMAIN req[2].params
  /\ req[2].params[sId] # req[1].pending[1].val

sPerson == <<"p", "e", "r", "s", "o", "n">>
sLast   == <<":", "l", "a", "s", "t">>
sFirst  == <<":", "f", "i", "r", "s", "t">>
sPage   == <<":", "p", "a", "g", "e">>
sAsa    == <<"a", "s", "a">>
sNa     == <<"n", "a">>
s32     == <<"3", "2">>
s12     == <<"1", "2">>
sXml    == <<".", "x", "m", "l">>
sHtml   == <<".", "h", "t", "m", "l">>
sAsana  == <<"a", "s", "a", "n", "a">>

ptPerson       == Path(<<sPerson, sLast, sFirst>>)
ptAsana        == Path(<<sAsana \o sId \o rInt \o <<"-">> \o sPage \o rInt \o sHtml>>)
ptUserExt      == Path(<<sUser, sStarDot>>)
ptRootExt      == Path(<<sStarDot>>)
ptUserListJson == Path(<<sUser, sList \o sJson>>)

FormPatterns ==
  {ptUser, ptUserList, ptUserListJson, ptUserId, ptUserExt, ptRootExt, ptPerson, ptAsana}

pathAsanaOk  == Path(<<sAsana \o s32 \o <<"-">> \o s12 \o sHtml>>)
pathAsanaBad == Path(<<sAsana \o <<"X">> \o <<"-">> \o s12 \o sHtml>>)

pathAsanaLong == pathAsanaOk \o <<"x">>

FormPaths ==
  { <<>>, sUser, ptRoot, ptUser, ptUserList, ptUserListJson,
    Path(<<sUser, s11>>), Path(<<sUser, s11 \o sXml>>),
    Path(<<sPerson>>), Path(<<sPerson, sAsa>>), Path(<<sPerson, sAsa, sNa>>),
    Path(<<sPerson, sAsa, sNa, s11>>),
    pathAsanaOk, pathAsanaBad, pathAsanaLong }

NextForms ==
  \/ \E pt \in FormPatterns : AddRoute(GET, pt)
  \/ \E path \in FormPaths : DoMatch(GET, path)

SpecForms == Init /\ [][NextForms]_vars

\* the object Match returned on the request is a registration of pattern
ReturnedFor(pattern) ==
  /\ req # <<>>
  /\ req[1].obj # Nil
  /\ routes[req[1].obj].pattern = pattern

\* C12: Match returns an endpoint or nil on every request path and never
\* panics.
C12_MatchNeverPanics == \A c \in 1..Len(req) : ~req[c].panic

(***************************************************************************)
(* Registration of patterns whose regexp does not compile                   *)
(***************************************************************************)
sBadId == sId \o <<"(", "[", "0", "-", "9", "+", ")">>
sIdInt == sId \o rInt

ptUserBad    == Path(<<sUser, sBadId>>)
ptUserOptBad == Path(<<sUser, <<"?">> \o sBadId>>)
ptUserInt    == Path(<<sUser, sIdInt>>)
ptUserOptInt == Path(<<sUser, <<"?">> \o sIdInt>>)

RegPatterns == {ptUser, ptUserInt, ptUserOptInt, ptUserBad, ptUserOptBad}

RegPaths == {ptUser, Path(<<sUser, s11>>), Path(<<sUser, sList>>)}

NextReg ==
  \/ \E pt \in RegPatterns : AddRoute(GET, pt)
  \/ \E path \in RegPaths : DoMatch(GET, path)

SpecReg == Init /\ [][NextReg]_vars

\* C13: when AddRouter fails on a regexp that does not compile, the tree is
\* left exactly as it was before the call.
C13_FailedAddRouterLeavesTree ==
  (last.op = "AddRouter" /\ last.panic) => routers = last.before

(***************************************************************************)
(* AddTree.  The grafted tree is one object that addTree may filter and     *)
(* attach more than once (an optional prefix segment makes a second call),  *)
(* so a call threads the object's value (tree) next to the receiving tree,  *)
(* in which every attachment is the reference TreeRef; plugTree puts the    *)
(* object's final value at the references.  The prefixes used here never    *)
(* make addTree descend into the grafted tree itself.                       *)
(***************************************************************************)
TreeRef == [prefix |-> <<"&">>, fixRouters |-> <<>>, wildCard |-> <<>>, leaves |-> <<>>]

\* lines 176-182: one group per wildcard of the leaf, appended to reg
RECURSIVE leafGroups(_)
leafGroups(wildcards) ==
  IF Len(wildcards) = 0 THEN <<>>
  ELSE (IF wildcards[1] = pSplat THEN <<SLASH>> \o rAny ELSE <<SLASH>> \o rSeg)
       \o leafGroups(Tail(wildcards))

\* lines 189-195: one group per wildcard of the prefix, each put in front of
\* reg
RECURSIVE prefixGroups(_, _)
prefixGroups(wildcards, reg) ==
  IF Len(wildcards) = 0 THEN reg
  ELSE prefixGroups(Tail(wildcards),
                    (IF wildcards[1] = pSplat THEN rAny \o <<SLASH>> ELSE rSeg \o <<SLASH>>)
                    \o reg)

\* a leaf whose regexp is replaced by the text re; the assignment does not
\* happen when regexp.MustCompile panics on re
filterLeafCompiled(l, re, reg) ==
  [l |-> IF Compilable(re) THEN [l EXCEPT !.regexps = re] ELSE l,
   reg |-> reg, panic |-> ~Compilable(re)]

\* lines 171-198, the body of the loop over t.leaves for one leaf; returns
\* the leaf, the value reg has after it, and whether MustCompile panicked
filterLeaf(l, wildcards, reg) ==
  IF reg # <<>> THEN
    IF l.regexps # NoRegexp
    THEN filterLeafCompiled([l EXCEPT !.wildcards = wildcards \o l.wildcards],
           <<"^">> \o reg \o <<SLASH>> \o Trim(l.regexps, {"^", "$"}) \o <<"$">>, reg)
    ELSE filterLeafCompiled(
           IF Compilable(<<"^">> \o reg \o leafGroups(l.wildcards) \o <<"$">>)
           THEN [l EXCEPT !.wildcards = wildcards \o l.wildcards] ELSE l,
           <<"^">> \o reg \o leafGroups(l.wildcards) \o <<"$">>,
           reg \o leafGroups(l.wildcards))
  ELSE IF l.regexps # NoRegexp
    THEN filterLeafCompiled([l EXCEPT !.wildcards = wildcards \o l.wildcards],
           <<"^">> \o prefixGroups(wildcards, reg) \o Trim(l.regexps, {"^", "$"}) \o <<"$">>,
           prefixGroups(wildcards, reg))
    ELSE [l |-> [l EXCEPT !.wildcards = wildcards \o l.wildcards],
          reg |-> reg, panic |-> FALSE]

RECURSIVE filterTreeWithPrefix(_, _, _)
RECURSIVE filterLeaves(_, _, _, _)
RECURSIVE filterFixRouters(_, _, _, _)

filterLeafDone(t, wildcards, i, r) ==
  IF r.panic THEN [t |-> [t EXCEPT !.leaves[i] = r.l], panic |-> TRUE]
  ELSE filterLeaves([t EXCEPT !.leaves[i] = r.l], wildcards, r.reg, i + 1)

\* lines 170-199: the loop over t.leaves, from leaf i on
filterLeaves(t, wildcards, reg, i) ==
  IF i > Len(t.leaves) THEN [t |-> t, panic |-> FALSE]
  ELSE filterLeafDone(t, wildcards, i, filterLeaf(t.leaves[i], wildcards, reg))

filterWildCardDone(t, wildcards, reg, r) ==
  IF r.panic THEN [t |-> [t EXCEPT !.wildCard = <<r.t>>], panic |-> TRUE]
  ELSE filterLeaves([t EXCEPT !.wildCard = <<r.t>>], wildcards, reg, 1)

\* lines 167-169
filterWildCard(t, wildcards, reg) ==
  IF t.wildCard = <<>> THEN filterLeaves(t, wildcards, reg, 1)
  ELSE filterWildCardDone(t, wildcards, reg,
                          filterTreeWithPrefix(t.wildCard[1], wildcards, reg))

filterFixRouterDone(t, wildcards, reg, i, r) ==
  IF r.panic THEN [t |-> [t EXCEPT !.fixRouters[i] = r.t], panic |-> TRUE]
  ELSE filterFixRouters([t EXCEPT !.fixRouters[i] = r.t], wildcards, reg, i + 1)

\* lines 164-166: the loop over t.fixRouters, from child i on
filterFixRouters(t, wildcards, reg, i) ==
  IF i > Len(t.fixRouters) THEN filterWildCard(t, wildcards, reg)
  ELSE filterFixRouterDone(t, wildcards, reg, i,
                           filterTreeWithPrefix(t.fixRouters[i], wildcards, reg))

\* filterTreeWithPrefix returns [t, panic]: the tree as the call left it
filterTreeWithPrefix(t, wildcards, reg) == filterFixRouters(t, wildcards, reg, 1)

\* "for _, w := range params" of lines 101-106: one group per parameter name
\* other than "." and ":"
RECURSIVE lastSegGroups(_)
lastSegGroups(params) ==
  IF Len(params) = 0 THEN <<>>
  ELSE (IF params[1] \in {pDot, pColon} THEN <<>> ELSE rSeg \o <<SLASH>>)
       \o lastSegGroups(Tail(params))

\* "for range params" of lines 144-146
RECURSIVE innerSegGroups(_)
innerSegGroups(params) ==
  IF Len(params) = 0 THEN <<>>
  ELSE rSeg \o <<SLASH>> \o innerSegGroups(Tail(params))

\* lines 82-108: the regexp of the last prefix segment
lastSegRegexp(seg, params, regexpStr, wildcards, reg) ==
  IF regexpStr # <<>> THEN
    IF reg = <<>> THEN wildcardGroups(wildcards) \o regexpStr
    ELSE <<SLASH>> \o regexpStr
  ELSE IF reg # <<>> THEN
    IF seg = sStarDot THEN rPathExt ELSE lastSegGroups(params)
  ELSE <<>>

\* lines 125-152: the regexp of a prefix segment that is not the last
innerSegRegexp(seg, params, regexpStr, wildcards, reg) ==
  IF regexpStr # <<>> THEN
    IF reg = <<>> THEN wildcardGroups(wildcards) \o regexpStr
    ELSE <<SLASH>> \o regexpStr
  ELSE IF reg # <<>> THEN
    IF seg = sStarDot THEN rPathExt ELSE innerSegGroups(params)
  ELSE <<>>

\* addTree returns [t, tree, panic]: the receiving tree with TreeRef at the
\* attachments, the grafted tree as the call left it, and whether the call
\* panicked
RECURSIVE addTree(_, _, _, _, _)

\* lines 109-111 and 113-116: the grafted tree is filtered and attached
addTreeAttach(t, seg, isWild, f) ==
  IF f.panic THEN [t |-> t, tree |-> f.t, panic |-> TRUE]
  ELSE IF isWild
  THEN [t |-> [t EXCEPT !.wildCard = <<TreeRef>>], tree |-> f.t, panic |-> FALSE]
  ELSE [t |-> [t EXCEPT !.fixRouters = Append(t.fixRouters, TreeRef)],
        tree |-> [f.t EXCEPT !.prefix = seg], panic |-> FALSE]

\* lines 81-119: the last prefix segment
addTreeLast(t, seg, tree, wildcards, reg, r) ==
  addTreeAttach(t, seg, r.isWild,
    filterTreeWithPrefix(tree, wildcards \o r.params,
      Trim(reg \o <<SLASH>>
           \o (IF r.isWild
               THEN lastSegRegexp(seg, r.params, r.regexpStr, wildcards, reg)
               ELSE r.regexpStr),
           {SLASH})))

\* lines 154 and 156-159: what the call on the child returned, put back
addTreeWildDone(t, sub) ==
  [t |-> [t EXCEPT !.wildCard = <<sub.t>>], tree |-> sub.tree, panic |-> sub.panic]

addTreeFixDone(t, sub) ==
  [t |-> [t EXCEPT !.fixRouters = Append(t.fixRouters, sub.t)],
   tree |-> sub.tree, panic |-> sub.panic]

\* lines 121-160: a prefix segment that is not the last
addTreeInner(t, segments, tree, wildcards, reg, r) ==
  IF r.isWild
  THEN addTreeWildDone(t,
         addTree(IF t.wildCard = <<>> THEN NewTree ELSE t.wildCard[1],
                 Tail(segments), tree,
                 wildcards \o segParams(Head(segments), r.params, r.regexpStr),
                 TrimRight(TrimRight(reg, {SLASH}) \o <<SLASH>>
                           \o innerSegRegexp(Head(segments), r.params, r.regexpStr,
                                             wildcards, reg),
                           {SLASH})))
  ELSE addTreeFixDone(t,
         addTree([NewTree EXCEPT !.prefix = Head(segments)],
                 Tail(segments), tree, wildcards \o r.params, reg))

\* lines 71-160, after the call made for an optional segment
addTreeRules(segments, wildcards, reg, ss, short) ==
  IF short.panic THEN short
  ELSE IF Len(segments) = 1
  THEN addTreeLast(short.t, Head(segments), short.tree, wildcards, reg,
                   segRules(Head(segments), ss, wildcards, reg))
  ELSE addTreeInner(short.t, segments, short.tree, wildcards, reg,
                    segRules(Head(segments), ss, wildcards, reg))

\* lines 66-68: the grafted tree filtered for the prefix without its
\* optional last segment
addTreeShortLast(t, f) == [t |-> t, tree |-> f.t, panic |-> f.panic]

\* lines 63-70: "?:name" first grafts under the prefix without the segment
addTreeSplit(t, segments, tree, wildcards, reg, ss) ==
  IF Len(ss.params) > 0 /\ ss.params[1] = pColon
  THEN addTreeRules(segments, wildcards, reg,
         [ss EXCEPT !.params = Tail(ss.params)],
         IF Len(segments) > 1
         THEN addTree(t, Tail(segments), tree, wildcards \o Tail(ss.params), reg)
         ELSE addTreeShortLast(t, filterTreeWithPrefix(tree, wildcards, reg)))
  ELSE addTreeRules(segments, wildcards, reg, ss,
                    [t |-> t, tree |-> tree, panic |-> FALSE])

addTree(t, segments, tree, wildcards, reg) ==
  IF Len(segments) = 0 THEN [t |-> t, tree |-> tree, panic |-> TRUE]
  ELSE addTreeSplit(t, segments, tree, wildcards, reg, splitSegment(Head(segments)))

\* the receiving tree with the grafted object's value at every reference
RECURSIVE plugTree(_, _)
plugTree(t, tree) ==
  IF t = TreeRef THEN tree
  ELSE [t EXCEPT
          !.fixRouters = [i \in 1..Len(t.fixRouters) |-> plugTree(t.fixRouters[i], tree)],
          !.wildCard = [i \in 1..Len(t.wildCard) |-> plugTree(t.wildCard[i], tree)]]

plugResult(r) == [t |-> plugTree(r.t, r.tree), panic |-> r.panic]

\* t.AddTree(prefix, tree): [t, panic]
AddTree(t, prefix, tree) == plugResult(addTree(t, splitPath(prefix), tree, <<>>, <<>>))

(***************************************************************************)
(* Grafting a namespace's tree under a prefix.  routers[NsGET] is the GET   *)
(* tree of the namespace's own handlers, routers[GET] the receiving tree.   *)
(***************************************************************************)
NsGET == "ns.GET"

ptList      == Path(<<sList>>)
ptId        == Path(<<sId>>)
ptSlashStar == Path(<<sStar>>)
ptLogin     == Path(<<sLogin>>)

\* routes of the receiving tree, routes of the namespace, literal prefixes
BasePatterns  == {ptUserId, ptLoginStar, ptList}
NsPatterns    == {ptRoot, ptList, ptId, ptSlashStar}
GraftPrefixes == {ptUser, ptLogin}

\* request paths below the prefix
GraftPaths ==
  {ptRoot, ptList, Path(<<s11>>), Path(<<sList, s11>>), Path(<<sList \o sJson>>)}

InitGraft ==
  /\ routers = (GET :> NewTree) @@ (NsGET :> NewTree)
  /\ routes = <<>>
  /\ filters = NoFilters
  /\ req = <<>>
  /\ last = NoOp

\* a route is added to the receiving tree or to the namespace before the
\* namespace is attached
AddRouteBefore(method, pattern) ==
  /\ last.op # "AddTree"
  /\ AddRoute(method, pattern)

\* Namespace.Namespace, line 212: n.handlers.routers[k].AddTree(ni.prefix, v)
Graft(prefix) ==
  /\ last.op # "AddTree"
  /\ \E i \in 1..Len(routes) : routes[i].method = NsGET
  /\ routers' = [routers EXCEPT
                   ![GET] = AddTree(routers[GET], prefix, routers[NsGET]).t]
  /\ last' = [op |-> "AddTree", pattern |-> prefix, method |-> GET,
              panic |-> AddTree(routers[GET], prefix, routers[NsGET]).panic,
              before |-> routers]
  /\ req' = <<>>
  /\ UNCHANGED <<routes, filters>>

\* Match(prefix + p) on the receiving tree after the graft
MatchBelow(p) ==
  /\ last.op = "AddTree"
  /\ req' = <<Matched(last.pattern \o p, Match(routers[GET], last.pattern \o p, 1), 1)>>
  /\ UNCHANGED <<routers, routes, filters, last>>

NextGraft ==
  \/ \E pt \in BasePatterns : AddRouteBefore(GET, pt)
  \/ \E pt \in NsPatterns : AddRouteBefore(NsGET, pt)
  \/ \E prefix \in GraftPrefixes : Graft(prefix)
  \/ \E p \in GraftPaths : MatchBelow(p)

SpecGraft == InitGraft /\ [][NextGraft]_vars

\* the part of the request path below the prefix of the graft
BelowPrefix == Sub(req[1].path, Len(last.pattern) + 1, Len(req[1].path))

\* C14: after AddTree(prefix, sub) with a literal prefix, Match(prefix + p)
\* on the merged tree returns the endpoint and the bindings that Match(p)
\* returned on sub before the graft.
C14_GraftEquivalence ==
  (last.op = "AddTree" /\ ~last.panic /\ req # <<>>)
  => /\ req[1].obj = Match(last.before[NsGET], BelowPrefix, 1).obj
     /\ req[1].params = ApplyLog(NoParams, Match(last.before[NsGET], BelowPrefix, 1).log, 1)

\* the place of a recorded step in the fixed order of the pipeline
StepRank(e) ==
  CASE e.kind \in {"stage", "filter"} -> 2 * Rank(e.pos)
    [] e.kind = "static" -> 1
    [] e.kind \in {"match", "notfound"} -> 3
    [] e.kind = "handler" -> 5
    [] e.kind = "recover" -> 9

\* C15: the steps of a request occur in the order BeforeStatic, static
\* files, BeforeRouter, route match, BeforeExec, handler, AfterExec,
\* FinishRouter; no BeforeExec filter runs before the route is matched, and
\* the handler is invoked at most once.
C15_StageOrder ==
  \A c \in 1..Len(req) :
    /\ \A i, j \in 1..Len(req[c].trace) :
         i < j => StepRank(req[c].trace[i]) <= StepRank(req[c].trace[j])
    /\ \A j \in 1..Len(req[c].trace) :
         (IsFilterEvent(c, j) /\ req[c].trace[j].pos = BeforeExec)
         => \E i \in 1..(j - 1) : req[c].trace[i].kind = "match"
    /\ \A i, j \in 1..Len(req[c].trace) :
         (IsHandlerEvent(c, i) /\ IsHandlerEvent(c, j)) => i = j

\* C15 witness: a finished request on which a BeforeExec filter ran, then
\* the handler, then an AfterExec filter
C15_Witness ==
  /\ Len(req) = 1
  /\ req[1].pc = "Done"
  /\ \E i, j, k \in 1..Len(req[1].trace) :
       /\ i < j /\ j < k
       /\ IsFilterEvent(1, i) /\ req[1].trace[i].pos = BeforeExec
       /\ IsHandlerEvent(1, j)
       /\ IsFilterEvent(1, k) /\ req[1].trace[k].pos = AfterExec

(***************************************************************************)
(* Route selection by HTTP method.  Handlers.routers starts empty and gets  *)
(* a tree for a method with the first route registered for it; "*" is the   *)
(* all-methods tree.                                                        *)
(***************************************************************************)
POST == "POST"
AnyMethod == "*"

NoMatch == [obj |-> Nil, log |-> <<>>, panic |-> FALSE]

\* the route match of ServeHTTP that also asks the "*" tree when the
\* method's own tree has no route for the path
findRouterBoth(rs, method, path, ctx) ==
  IF method \in DOMAIN rs /\ Match(rs[method], path, ctx).obj # Nil
  THEN Match(rs[method], path, ctx)
  ELSE IF AnyMethod \in DOMAIN rs THEN Match(rs[AnyMethod], path, ctx)
  ELSE NoMatch

\* the route match of ServeHTTP: the tree of the request's method, the "*"
\* tree when the method has none
findRouter(rs, method, path, ctx) ==
  IF method \in DOMAIN rs THEN Match(rs[method], path, ctx)
  ELSE IF AnyMethod \in DOMAIN rs THEN Match(rs[AnyMethod], path, ctx)
  ELSE NoMatch

\* addToRouter: the method's tree is created on its first registration
addToRouter(rs, method, pattern, obj) ==
  (method :> AddRouter(IF method \in DOMAIN rs THEN rs[method] ELSE NewTree,
                       pattern, obj).t) @@ rs

MethodPatterns == {ptUser, ptUserId}
MethodPaths == {ptUser, Path(<<sUser, s11>>), ptLogin}
RouteMethods == {GET, POST, AnyMethod}
RequestMethods == {GET, POST}

InitMethods ==
  /\ routers = [m \in {} |-> NewTree]
  /\ routes = <<>>
  /\ filters = NoFilters
  /\ req = <<>>
  /\ last = NoOp

AddToRouter(method, pattern) ==
  /\ Len(routes) < MaxRoutes
  /\ routers' = addToRouter(routers, method, pattern, Len(routes) + 1)
  /\ routes' = Append(routes, [method |-> method, pattern |-> pattern,
                               obj |-> Len(routes) + 1, state |-> "live"])
  /\ req' = <<>>
  /\ UNCHANGED <<filters, last>>

\* ServeHTTP is entered with a reset context for a request of this method
ServeMethod(method, path) ==
  /\ Idle
  /\ req' = <<NewContext(1, path, FALSE) @@ [method |-> method]>>
  /\ UNCHANGED <<routers, routes, filters, last>>

RouteMatchMethod ==
  /\ Len(req) = 1
  /\ req[1].pc = "RouteMatch"
  /\ req' = <<routeMatched(req[1], findRouter(routers, req[1].method, req[1].path, 1))>>
  /\ UNCHANGED <<routers, routes, filters, last>>

NextMethods ==
  \/ \E m \in RouteMethods, pt \in MethodPatterns : AddToRouter(m, pt)
  \/ \E m \in RequestMethods, path \in MethodPaths : ServeMethod(m, path)
  \/ \E pos \in Positions : Stage(pos)
  \/ Static
  \/ RouteMatchMethod
  \/ \E o \in HandlerOutcomes : Invoke(o)
  \/ Recover

SpecMethods == InitMethods /\ [][NextMethods]_vars

\* the tree the request's route is looked up in
TreeOf(method) == IF method \in DOMAIN routers THEN method ELSE AnyMethod

\* the recorded steps of request c of the given kind
StepsOf(c, kind) == {i \in 1..Len(req[c].trace) : req[c].trace[i].kind = kind}

\* C16: the route is looked up in the tree of the request's method, in the
\* "*" tree only when the method has no tree; when the path matches no
\* route there the request ends with status 404, no handler call and a
\* single lookup.
C16_MethodTreeAndNotFound ==
  \A c \in 1..Len(req) :
    /\ \A i \in StepsOf(c, "match") :
         /\ routes[req[c].trace[i].obj].method = TreeOf(req[c].method)
         /\ req[c].trace[i].obj
              = Match(routers[TreeOf(req[c].method)], req[c].path, c).obj
    /\ StepsOf(c, "notfound") # {}
       => /\ req[c].pc = "Done"
          /\ req[c].Status = "404"
          /\ StepsOf(c, "handler") = {}
          /\ StepsOf(c, "match") = {}
          /\ TreeOf(req[c].method) \in DOMAIN routers
             => Match(routers[TreeOf(req[c].method)], req[c].path, c).obj = Nil
    /\ Cardinality(StepsOf(c, "match") \cup StepsOf(c, "notfound")) <= 1

\* C16 witness: a POST request whose path only the "*" tree has a route
\* for ended in 404, because POST has a tree of its own
C16_Witness ==
  /\ Len(req) = 1
  /\ req[1].pc = "Done"
  /\ req[1].method = POST
  /\ POST \in DOMAIN routers /\ AnyMethod \in DOMAIN routers
  /\ Match(routers[AnyMethod], req[1].path, 1).obj # Nil
  /\ StepsOf(1, "notfound") # {}
  /\ req[1].Status = "404"

\* a pattern all of whose segments are literal
IsLiteral(pattern) ==
  \A i \in 1..Len(splitPath(pattern)) : ~splitSegment(splitPath(pattern)[i]).isWild

\* C17: Match on the exact path of a registered pattern made of literal
\* segments only returns an endpoint registered under that pattern and
\* writes no parameter binding.
C17_LiteralExactMatch ==
  \A c \in 1..Len(req) :
    (Registered(req[c].path) /\ IsLiteral(req[c].path))
    => /\ ReturnedFor(req[c].path)
       /\ req[c].log = <<>>
       /\ req[c].params = NoParams

\* C17 witness: /user/list.json, /user/list and /user/*.* are registered and
\* the request /user/list.json got the first of them, with nothing bound
C17_Witness ==
  /\ Registered(ptUserListJson) /\ Registered(ptUserList) /\ Registered(ptUserExt)
  /\ req # <<>>
  /\ req[1].path = ptUserListJson
  /\ ReturnedFor(ptUserListJson)
  /\ req[1].params = NoParams

\* the segments of the request path of call c
PathSegments(c) == splitPath(req[c].path)

\* C18: /person/:last/:first on a path /person/x/y returns its endpoint
\* with :last = x and :first = y and nothing else bound; on a path under
\* /person with another number of values its leaf does not match and binds
\* nothing, and Match reports no match when no other route is registered.
C18_PositionalBinding ==
  \A c \in 1..Len(req) :
    /\ ( /\ Registered(ptPerson)
         /\ Len(PathSegments(c)) = 3
         /\ PathSegments(c)[1] = sPerson )
       => /\ ReturnedFor(ptPerson)
          /\ req[c].params = (sLast :> PathSegments(c)[2]) @@ (sFirst :> PathSegments(c)[3])
    /\ ( /\ Registered(ptPerson)
         /\ Len(PathSegments(c)) # 3 )
       => /\ ~ReturnedFor(ptPerson)
          /\ sLast \notin DOMAIN req[c].params
          /\ sFirst \notin DOMAIN req[c].params
          /\ (\A i \in 1..Len(routes) : routes[i].pattern = ptPerson)
             => (req[c].obj = Nil /\ req[c].log = <<>>)

\* C18 witness: /person/asa/na returned the endpoint of /person/:last/:first
\* with both names bound, another route being registered before it
C18_Witness ==
  /\ Len(routes) > 1
  /\ routes[1].pattern = ptRootExt
  /\ req # <<>>
  /\ req[1].path = Path(<<sPerson, sAsa, sNa>>)
  /\ ReturnedFor(ptPerson)
  /\ req[1].params[sLast] = sAsa
  /\ req[1].params[sFirst] = sNa

\* the bindings of /asana32-12.html under /asana:id([0-9]+)-:page([0-9]+).html
AsanaBindings == (sId :> s32) @@ (sPage :> s12)

\* C19: the leaf of /asana:id([0-9]+)-:page([0-9]+).html matches a path only
\* when the whole segment satisfies its regexp: /asana32-12.html gets the
\* endpoint with id = 32 and page = 12, and a path that does not conform
\* never gets it and has neither name bound (no match at all when no other
\* route can take the path).
C19_RegexLeaf ==
  \A c \in 1..Len(req) :
    /\ (Registered(ptAsana) /\ ~Registered(ptRootExt) /\ req[c].path = pathAsanaOk)
       => ReturnedFor(ptAsana)
    /\ ReturnedFor(ptAsana)
       => (req[c].path = pathAsanaOk /\ req[c].params = AsanaBindings)
    /\ (Registered(ptAsana) /\ req[c].path \in {pathAsanaBad, pathAsanaLong})
       => /\ sId \notin DOMAIN req[c].params
          /\ sPage \notin DOMAIN req[c].params
          /\ ~Registered(ptRootExt) => (req[c].obj = Nil /\ req[c].log = <<>>)

\* C19 witness: the conforming path got the endpoint and both bindings
C19_Witness ==
  /\ req # <<>>
  /\ req[1].path = pathAsanaOk
  /\ ReturnedFor(ptAsana)
  /\ req[1].params = AsanaBindings

\* C20: a segment ending in .json, .xml or .html that no literal child
\* matches as it stands is retried on the literal children without the
\* suffix, and a success binds :ext to the suffix without its dot.  The
\* retry comes after the plain literal children (/user/list.json goes to a
\* route registered as /user/list.json, with nothing bound) and before the
\* wildcard child (it goes to /user/list with :ext = json even when
\* /user/:id or /user/*.* is registered).
C20_ExtensionFallback ==
  \A c \in 1..Len(req) :
    req[c].path = ptUserListJson
    => /\ Registered(ptUserListJson)
          => (ReturnedFor(ptUserListJson) /\ req[c].params = NoParams)
       /\ (~Registered(ptUserListJson) /\ Registered(ptUserList))
          => (ReturnedFor(ptUserList) /\ req[c].params = (pExt :> Tail(sJson)))

\* C20 witness: /user/:id and /user/list are registered, /user/list.json is
\* not, and the request /user/list.json got /user/list with :ext = json
C20_Witness ==
  /\ Registered(ptUserId) /\ Registered(ptUserList) /\ ~Registered(ptUserListJson)
  /\ routes[1].pattern = ptUserId
  /\ req # <<>>
  /\ req[1].path = ptUserListJson
  /\ ReturnedFor(ptUserList)
  /\ req[1].params = (pExt :> Tail(sJson))

(***************************************************************************)
(* Optional segments: a segment "?:name" registers the pattern with and     *)
(* without it                                                               *)
(***************************************************************************)
sAll == <<":", "a", "l", "l">>

ptAdminOpt     == Path(<<sAdmin, <<"?">> \o sAll>>)
ptAdminOptList == Path(<<sAdmin, <<"?">> \o sAll, sList>>)

OptPatterns == {ptAdminOpt, ptAdminOptList, ptUserOptInt, ptUserId}

OptPaths ==
  { Path(<<sAdmin>>), Path(<<sAdmin>>) \o <<SLASH>>, Path(<<sAdmin, s11>>),
    Path(<<sAdmin, sList>>), Path(<<sAdmin, s11, sList>>),
    Path(<<sAdmin, s11, s2009>>),
    ptUser, Path(<<sUser, s11>>), Path(<<sUser, sList>>) }

NextOpt ==
  \/ \E pt \in OptPatterns : AddRoute(GET, pt)
  \/ \E path \in OptPaths : DoMatch(GET, path)

SpecOpt == Init /\ [][NextOpt]_vars

\* the first registration of pattern
FirstOf(pattern) ==
  CHOOSE i \in 1..Len(routes) :
    /\ routes[i].pattern = pattern
    /\ \A j \in 1..(i - 1) : routes[j].pattern # pattern

\* the request got the first registration of pattern, with these bindings
GotWith(pattern, params) ==
  /\ req[1].obj = FirstOf(pattern)
  /\ req[1].params = params

\* C21: a pattern with an optional segment ?:name answers both forms of the
\* URL with the same endpoint: the path with a value in that position binds
\* :name to it, the path without the segment binds nothing.  (/user/11 is
\* stated for /user/?:id([0-9]+) registered with no /user/:id before it, whose
\* leaf at the same node would come first.)
C21_OptionalSegment ==
  req # <<>> =>
    /\ Registered(ptAdminOpt) =>
         /\ req[1].path \in {Path(<<sAdmin>>), Path(<<sAdmin>>) \o <<SLASH>>}
            => GotWith(ptAdminOpt, NoParams)
         /\ req[1].path = Path(<<sAdmin, s11>>)
            => GotWith(ptAdminOpt, sAll :> s11)
    /\ Registered(ptAdminOptList) =>
         /\ req[1].path = Path(<<sAdmin, sList>>)
            => GotWith(ptAdminOptList, NoParams)
         /\ req[1].path = Path(<<sAdmin, s11, sList>>)
            => GotWith(ptAdminOptList, sAll :> s11)
    /\ Registered(ptUserOptInt) =>
         /\ req[1].path = ptUser => GotWith(ptUserOptInt, NoParams)
         /\ (req[1].path = Path(<<sUser, s11>>)
             /\ \A i \in 1..FirstOf(ptUserOptInt) : routes[i].pattern # ptUserId)
            => GotWith(ptUserOptInt, sId :> s11)

\* C21 witness: /admin/?:all is registered and the request /admin/ got its
\* endpoint with :all unbound
C21_Witness ==
  /\ Registered(ptAdminOpt)
  /\ req # <<>>
  /\ req[1].path = Path(<<sAdmin>>) \o <<SLASH>>
  /\ GotWith(ptAdminOpt, NoParams)

(***************************************************************************)
(* The pair :path / :ext of a pattern ending in *.*                         *)
(***************************************************************************)
sAB  == <<"a", "b">>
sABC == <<"a", ".", "b", ".", "c">>
sAbC == <<"a", "b", ".", "c">>

ExtPatterns == {ptRootExt, ptUserExt}

ExtPaths ==
  { Path(<<sAB>>), Path(<<sAbC>>), Path(<<sABC>>),
    Path(<<s11, sAB>>), Path(<<s11, sAbC>>), Path(<<s11, sABC>>),
    Path(<<sUser, sAB>>), Path(<<sUser, sAbC>>), Path(<<sUser, sABC>>),
    Path(<<sUser, s11, sABC>>) }

NextExt ==
  \/ \E pt \in ExtPatterns : AddRoute(GET, pt)
  \/ \E path \in ExtPaths : DoMatch(GET, path)

SpecExt == Init /\ [][NextExt]_vars

\* the position of the last "." of s, 0 when s has none
LastDot(s) ==
  IF \E i \in 1..Len(s) : s[i] = "." 
  THEN CHOOSE i \in 1..Len(s) : s[i] = "." /\ \A j \in (i + 1)..Len(s) : s[j] # "."
  ELSE 0

\* the values a leaf of pattern captured on the request path: the segments
\* below the literal part of the pattern
CapturedBy(pattern) ==
  SubSeq(PathSegments(1), Len(splitPath(pattern)), Len(PathSegments(1)))

\* the bindings :path and :ext the values should give when the last one is
\* split on its last "."
SplitOnLastDot(values) ==
  IF LastDot(values[Len(values)]) = 0
  THEN pPath :> JoinSlash(values)
  ELSE (pPath :> JoinSlash([values EXCEPT ![Len(values)] =
                              SubSeq(@, 1, LastDot(@) - 1)]))
       @@ (pExt :> SubSeq(values[Len(values)], LastDot(values[Len(values)]) + 1,
                          Len(values[Len(values)])))

\* C22: a match on a leaf whose names are [:path, :ext] splits the last
\* captured value on its last ".": :ext is what follows that dot, :path is
\* the earlier values joined with what precedes it; without a "." :path is
\* everything and :ext is not bound.
C22_SplitOnLastDot ==
  \A pt \in ExtPatterns :
    ReturnedFor(pt) => req[1].params = SplitOnLastDot(CapturedBy(pt))

\* C23: a pattern ending in the bare splat matches only paths with at least
\* one segment in the splat position: /login/* answers /login/11 and
\* /login/2009/11, and never answers /login or /login/.
C23_SplatNeedsSegment ==
  \A c \in 1..Len(req) :
    /\ (Registered(ptLoginStar)
        /\ req[c].path \in {Path(<<sLogin, s11>>), Path(<<sLogin, s2009, s11>>)})
       => ReturnedFor(ptLoginStar)
    /\ req[c].path \in {Path(<<sLogin>>), Path(<<sLogin>>) \o <<SLASH>>}
       => ~ReturnedFor(ptLoginStar)

(***************************************************************************)
(* Several leaves at one node: /user/:id, /user/:id([0-9]+), /user/* and    *)
(* /user/*.* all put their leaf at the wildcard child of "user"             *)
(***************************************************************************)
ptUserStar == Path(<<sUser, sStar>>)

\* the patterns whose leaf is at the wildcard child of "user"
AmbWild == {ptUserId, ptUserInt, ptUserStar, ptUserExt}

AmbPatterns == AmbWild \cup {ptUserList}

AmbPaths ==
  { ptUser, ptUserList, ptUserListJson, Path(<<sUser, s11>>),
    Path(<<sUser, sAbC>>), Path(<<sUser, s11, s2009>>) }

NextAmb ==
  \/ \E pt \in AmbPatterns : AddRoute(GET, pt)
  \/ \E path \in AmbPaths : DoMatch(GET, path)

SpecAmb == Init /\ [][NextAmb]_vars

\* what Match gives on path when pattern is the only registration
Alone(pattern, path) == Match(AddRouter(NewTree, pattern, 1).t, path, 1)

\* the registrations of AmbWild whose leaf satisfies its rule on path
Satisfied(path) ==
  {i \in 1..Len(routes) :
     routes[i].pattern \in AmbWild /\ Alone(routes[i].pattern, path).obj # Nil}

Min(S) == CHOOSE i \in S : \A j \in S : i <= j

\* C24: when several leaves of one node satisfy their rule on a path that no
\* literal route takes, Match returns the endpoint of the one registered
\* first, with the bindings that leaf makes and no others.
C24_FirstLeafWins ==
  \A c \in 1..Len(req) :
    ( /\ ~req[c].panic
      /\ Satisfied(req[c].path) # {}
      /\ ~(Registered(ptUserList) /\ Alone(ptUserList, req[c].path).obj # Nil) )
    => /\ req[c].obj = Min(Satisfied(req[c].path))
       /\ req[c].params =
            ApplyLog(NoParams, Alone(routes[req[c].obj].pattern, req[c].path).log, 1)

\* C24 witness: /user/*.* was registered before /user/:id and /user/*, all
\* three accept /user/ab.c, and the request got /user/*.* with :path and :ext
C24_Witness ==
  /\ Len(routes) = 3
  /\ routes[1].pattern = ptUserExt
  /\ routes[2].pattern = ptUserId
  /\ routes[3].pattern = ptUserStar
  /\ req # <<>>
  /\ req[1].path = Path(<<sUser, sAbC>>)
  /\ Satisfied(req[1].path) = {1, 2, 3}
  /\ req[1].obj = 1
  /\ req[1].params = (pPath :> sAB) @@ (pExt :> <<"c">>)

(***************************************************************************)
(* Slashes in patterns: leading, trailing and repeated                      *)
(***************************************************************************)
ptListBare   == sUser \o <<SLASH>> \o sList \o <<SLASH>>
ptListDouble == <<SLASH>> \o sUser \o <<SLASH, SLASH>> \o sList

\* the spellings of /user/list that differ from it in slashes only
SlashVariants == {ptUserList, ptListBare, ptListDouble}

SlashPatterns == SlashVariants \cup {ptRoot, ptUserId}

SlashPaths ==
  { ptRoot, ptUser, ptUserList, ptListBare, ptListDouble,
    Path(<<sUser, s11>>) }

NextSlash ==
  \/ \E pt \in SlashPatterns : AddRoute(GET, pt)
  \/ \E path \in SlashPaths : DoMatch(GET, path)

SpecSlash == Init /\ [][NextSlash]_vars

\* the tree the first n registrations build when every spelling of
\* /user/list is registered as /user/list
RECURSIVE CanonTree(_)
CanonTree(n) ==
  IF n = 0 THEN NewTree
  ELSE AddRouter(CanonTree(n - 1),
                 IF routes[n].pattern \in SlashVariants THEN ptUserList
                 ELSE routes[n].pattern,
                 routes[n].obj).t

\* C25: patterns that differ only in leading, trailing or repeated slashes
\* create the same nodes and match the same paths, and / has no segment: the
\* tree is the one built from /user/list in place of each of its spellings,
\* and a route registered as / is a leaf of the root.
C25_SlashInsensitive ==
  /\ routers[GET] = CanonTree(Len(routes))
  /\ \A c \in 1..Len(req) :
       req[c].obj = Match(CanonTree(Len(routes)), req[c].path, 1).obj
  /\ \A i \in 1..Len(routes) :
       routes[i].pattern = ptRoot
       => \E l \in 1..Len(routers[GET].leaves) : routers[GET].leaves[l].runObject = i

(***************************************************************************)
(* The shape of a tree after AddRouter and AddTree                          *)
(***************************************************************************)
\* no node of t has two literal children with the same prefix
RECURSIVE NoDuplicateChildren(_)
NoDuplicateChildren(t) ==
  /\ \A i, j \in 1..Len(t.fixRouters) :
       t.fixRouters[i].prefix = t.fixRouters[j].prefix => i = j
  /\ \A i \in 1..Len(t.fixRouters) : NoDuplicateChildren(t.fixRouters[i])
  /\ \A i \in 1..Len(t.wildCard) : NoDuplicateChildren(t.wildCard[i])

\* the depths (number of segments consumed) of the nodes of t that have a
\* wildcard child, d being the depth of t
RECURSIVE WildDepths(_, _)
WildDepths(t, d) ==
  (IF t.wildCard = <<>> THEN {} ELSE {d} \cup WildDepths(t.wildCard[1], d + 1))
  \cup UNION {WildDepths(t.fixRouters[i], d + 1) : i \in 1..Len(t.fixRouters)}

\* the patterns registered in the receiving tree, those of the namespace
\* under its prefix once it is attached
FullPatterns ==
  {routes[i].pattern : i \in {j \in 1..Len(routes) : routes[j].method = GET}}
  \cup (IF last.op = "AddTree"
        THEN {last.pattern \o routes[i].pattern :
                i \in {j \in 1..Len(routes) : routes[j].method = NsGET}}
        ELSE {})

\* the depths at which some pattern of ps has a parameter or wildcard segment
NeededDepths(ps) ==
  {d \in 0..4 : \E p \in ps :
     /\ d < Len(splitPath(p))
     /\ splitSegment(splitPath(p)[d + 1]).isWild}

\* C26: after any sequence of AddRouter and AddTree no node has two literal
\* children with the same segment, and a node has a wildcard child only at
\* a depth where some registered pattern has a parameter or wildcard segment.
C26_TreeShape ==
  /\ NoDuplicateChildren(routers[GET])
  /\ WildDepths(routers[GET], 0) \subseteq NeededDepths(FullPatterns)

(***************************************************************************)
(* What a graft does to the routes the receiving tree already had           *)
(***************************************************************************)
sNs == <<":", "n", "s">>

ptNs == Path(<<sNs>>)

KeepBase     == {ptId, ptUserId, ptUser}
KeepNs       == {ptRoot, ptList}
KeepPrefixes == {ptNs, ptLogin}

KeepPaths ==
  { ptUser, Path(<<s11>>), Path(<<sUser, s11>>), Path(<<s11, sList>>),
    ptLogin, Path(<<sLogin, sList>>) }

\* Match on the receiving tree after the graft
MatchAfter(path) ==
  /\ last.op = "AddTree"
  /\ DoMatch(GET, path)

NextKeep ==
  \/ \E pt \in KeepBase : AddRouteBefore(GET, pt)
  \/ \E pt \in KeepNs : AddRouteBefore(NsGET, pt)
  \/ \E prefix \in KeepPrefixes : Graft(prefix)
  \/ \E path \in KeepPaths : MatchAfter(path)

SpecKeep == InitGraft /\ [][NextKeep]_vars

\* what Match gave on the request path on the tree as it was before the graft
Before(c) == Match(last.before[GET], req[c].path, 1)

\* C27: after AddTree every path that matched a route of the receiving tree
\* before the graft returns the same endpoint with the same bindings.
C27_GraftKeepsRoutes ==
  \A c \in 1..Len(req) :
    (last.op = "AddTree" /\ ~last.panic /\ Before(c).obj # Nil)
    => /\ req[c].obj = Before(c).obj
       /\ req[c].params = ApplyLog(NoParams, Before(c).log, 1)

(***************************************************************************)
(* What a Match call writes into the parameter store                        *)
(***************************************************************************)
StoreBase     == {ptUser, ptUserId}
StoreNs       == {ptRoot, ptList}
StorePrefixes == {ptUser}

StorePaths ==
  { ptUser, ptUser \o sJson, Path(<<sUser, s11>>), Path(<<sUser, sList>>),
    Path(<<sUser, sList \o sJson>>), Path(<<sUser, s11, sList>>), ptLogin }

NextStore ==
  \/ \E pt \in StoreBase : AddRouteBefore(GET, pt)
  \/ \E pt \in StoreNs : AddRouteBefore(NsGET, pt)
  \/ \E prefix \in StorePrefixes : Graft(prefix)
  \/ \E path \in StorePaths : DoMatch(GET, path)

SpecStore == InitGraft /\ [][NextStore]_vars

\* the parameter names of the leaves of t that hold runObject obj
RECURSIVE LeafNames(_, _)
LeafNames(t, obj) ==
  UNION {{t.leaves[l].wildcards[w] : w \in 1..Len(t.leaves[l].wildcards)} :
           l \in {k \in 1..Len(t.leaves) : t.leaves[k].runObject = obj}}
  \cup UNION {LeafNames(t.fixRouters[i], obj) : i \in 1..Len(t.fixRouters)}
  \cup UNION {LeafNames(t.wildCard[i], obj) : i \in 1..Len(t.wildCard)}

\* C28: a Match call that returns no match leaves the parameter store as it
\* was, and a call that returns an endpoint has written only parameters of
\* that endpoint's leaf, and :ext.
C28_NoMatchNoWrites ==
  \A c \in 1..Len(req) :
    ~req[c].panic =>
      /\ req[c].obj = Nil => (req[c].params = NoParams /\ req[c].log = <<>>)
      /\ req[c].obj # Nil
         => DOMAIN req[c].params \subseteq LeafNames(routers[GET], req[c].obj) \cup {pExt}

\* C29: adding a purely literal route R never changes the endpoint Match
\* returns for a path that R itself does not match: when the descent into a
\* literal child fails further down, the wildcard child and the leaves of
\* the node are still tried.
C29_LiteralRouteKeepsOthers ==
  \A c \in 1..Len(req) :
    ( /\ last.op = "AddRouter" /\ IsLiteral(last.pattern)
      /\ Alone(last.pattern, req[c].path).obj = Nil )
    => req[c].obj = Match(last.before[GET], req[c].path, 1).obj

\* C29 witness: /login/2009 was added after /login/*; on /login/2009/11 the
\* descent into the child "2009" fails and the request still gets /login/*
C29_Witness ==
  /\ Len(routes) = 2
  /\ routes[1].pattern = ptLoginStar
  /\ routes[2].pattern = ptLogin2009
  /\ last.op = "AddRouter" /\ last.pattern = ptLogin2009
  /\ req # <<>>
  /\ req[1].path = Path(<<sLogin, s2009, s11>>)
  /\ Alone(ptLogin2009, req[1].path).obj = Nil
  /\ req[1].obj = 1

(***************************************************************************)
(* Namespaces with filters: the filter's tree under the namespace prefix    *)
(***************************************************************************)
NsPrefixes    == {ptUser, ptLogin, ptNs}
InnerPrefixes == {ptList}

NsFilterPaths ==
  { ptRoot, ptUser, ptUser \o <<SLASH>>, Path(<<sUser, sList>>),
    Path(<<sUser, sList, s11>>), Path(<<sUser, s11>>), Path(<<sUser \o sList>>),
    ptUser \o sJson, ptLogin, Path(<<sLogin, sUser>>), Path(<<sList>>),
    Path(<<s11, sList>>), Path(<<s11, sList, s2009>>) }

\* lines 223-225 and 252-254: the filter's tree becomes a new tree holding
\* the old one under the prefix
prefixFilterTree(mr, prefix) ==
  [mr EXCEPT !.tree = AddTree(NewTree, prefix, mr.tree).t]

\* AddNamespace(NewNamespace(prefix).Filter("before", f)): the namespace's
\* filter, inserted with the pattern "*", is attached under the prefix
AttachNamespace(prefix) ==
  /\ Len(filters[BeforeRouter]) < MaxFilters
  /\ filters' = [filters EXCEPT ![BeforeRouter] =
                   Append(@, prefixFilterTree(FilterRouter(ptStar, "NoOutput", <<>>), prefix))]
  /\ routes' = Append(routes, [method |-> "namespace", pattern |-> prefix,
                               obj |-> Len(routes) + 1, state |-> "live"])
  /\ req' = <<>>
  /\ UNCHANGED <<routers, last>>

\* AddNamespace(NewNamespace(outer).Namespace(NewNamespace(inner).Filter(
\* "before", f))): the filter is attached under inner by Namespace.Namespace
\* and then under outer by AddNamespace
AttachNested(outer, inner) ==
  /\ Len(filters[BeforeRouter]) < MaxFilters
  /\ filters' = [filters EXCEPT ![BeforeRouter] =
                   Append(@, prefixFilterTree(
                               prefixFilterTree(FilterRouter(ptStar, "NoOutput", <<>>), inner),
                               outer))]
  /\ routes' = Append(routes, [method |-> "namespace", pattern |-> outer \o inner,
                               obj |-> Len(routes) + 1, state |-> "live"])
  /\ req' = <<>>
  /\ UNCHANGED <<routers, last>>

\* the pattern tree of the i-th filter is asked whether it matches the path
ValidFilter(i, path) ==
  /\ i \in 1..Len(filters[BeforeRouter])
  /\ req' = <<Matched(path, Match(filters[BeforeRouter][i].tree, path, 1), 1)
              @@ [filter |-> i]>>
  /\ UNCHANGED <<routers, routes, filters, last>>

NextNs ==
  \/ \E prefix \in NsPrefixes : AttachNamespace(prefix)
  \/ \E outer \in NsPrefixes, inner \in InnerPrefixes : AttachNested(outer, inner)
  \/ \E i \in 1..MaxFilters, path \in NsFilterPaths : ValidFilter(i, path)

SpecNs == Init /\ [][NextNs]_vars

\* the path is the prefix or lies below it: segment by segment the path
\* starts with the prefix, a parameter segment of the prefix standing for
\* any one segment
Within(prefix, path) ==
  /\ Len(splitPath(path)) >= Len(splitPath(prefix))
  /\ \A k \in 1..Len(splitPath(prefix)) :
       \/ splitSegment(splitPath(prefix)[k]).isWild
       \/ splitPath(path)[k] = splitPath(prefix)[k]

\* C30: the tree of a namespace's filter, once the namespace is attached
\* under the prefix P, matches P itself and every path below P, and no path
\* outside P.
C30_FilterScope ==
  \A c \in 1..Len(req) :
    req[c].obj # Nil <=> Within(routes[req[c].filter].pattern, req[c].path)

====
